---- MODULE Spec2Model ----
(***************************************************************************)
(* Versioned asset store, patch engine and pipeline operations of the      *)
(* AI Video Mockup Planner backend (src/backend/ai_video_mockup_planner).  *)
(*                                                                         *)
(* Python strings that the code takes apart (asset references, file names) *)
(* are sequences of one-character strings.  Optional[T] is <<>> for None   *)
(* and <<x>> for a value x.                                                *)
(***************************************************************************)
EXTENDS Integers, Sequences, FiniteSets, TLC

VARIABLES
    files,      \* project -> kind -> (file name -> stored asset): the *.json files
    index,      \* project -> kind -> (stable id -> [versions, latest]): _index.json
    project,    \* project -> project.json: the active pointers
    ret,        \* outcome of the last call: "ok" or the exception it raised
    hist,       \* history: <<kind, stable id, version>> -> first body stored, number of puts
    last,       \* history: what the last repository create found under its key
    objs,       \* the Python objects of an apply_patches call: reference -> value
    plan,       \* the reference of the PlanAsset passed to apply_patches
    patches,    \* the patch list passed to apply_patches
    out,        \* [exc, ref]: what apply_patches raised, or the reference it returned
    given,      \* history: the value of the PlanAsset when apply_patches was called
    call,       \* history: [op, partial]: the last pipeline call, and whether it had
                \* changed its working copy (patch_plan) or parsed a shot list
                \* (generate_shots) when it raised; a generate_images call of the
                \* image specification with its scope
    writers,    \* concurrent create_*_asset calls: writer -> [pc, kind, asset, idx],
                \* its position and the index it holds in memory
    loop,       \* a _validate_and_repair_shot_plan call: its position, its locals, the
                \* answers of the service and the calls made so far
    qa,         \* a validate_shot_plan call: its arguments, the client and its outcome
    codec,      \* a parse_asset_id call: its argument and its outcome
    checks,     \* a run of the four deterministic validators: the plan and shot list
                \* given and the issues each validator returned
    ops         \* concurrent pipeline operations: operation -> [pc, op, proj], its
                \* position and the Project object it holds in memory

repoVars == <<files, index, project, ret, hist, last, call>>

patchVars == <<objs, plan, patches, out, given>>

concVars == <<writers>>

callVars == <<loop, qa, codec, checks, ops>>

vars == <<files, index, project, ret, hist, last, objs, plan, patches, out, given, call,
         writers, loop, qa, codec, checks, ops>>

(***************************************************************************)
(* Bounds of the model.                                                    *)
(***************************************************************************)
MaxVersion == 2
MaxPuts == 3
MaxPatches == 2

None == <<>>
Some(x) == <<x>>

(***************************************************************************)
(* utils.py: the asset reference codec.                                    *)
(***************************************************************************)
Digits == <<"0", "1", "2", "3", "4", "5", "6", "7", "8", "9">>

DigitChars == {Digits[i] : i \in 1..10}

RECURSIVE IntToStr(_)
IntToStr(n) ==
    IF n < 10 THEN <<Digits[n + 1]>>
    ELSE IntToStr(n \div 10) \o <<Digits[(n % 10) + 1]>>

DigitValue(c) == (CHOOSE i \in 1..10 : Digits[i] = c) - 1

RECURSIVE StrToInt(_)
StrToInt(s) ==
    IF Len(s) = 0 THEN 0
    ELSE 10 * StrToInt(SubSeq(s, 1, Len(s) - 1)) + DigitValue(s[Len(s)])

\* characters that str.isdigit() takes for digits and int() does not convert; "^2"
\* stands for the one character U+00B2 (superscript two)
OtherDigits == {"^2"}

\* str.isdigit(): non-empty and every character a digit
isdigit(s) == Len(s) > 0 /\ \A i \in 1..Len(s) : s[i] \in DigitChars \cup OtherDigits

\* the exception int(s) raises on a str for which isdigit() holds
IntExc(s) == IF \E i \in 1..Len(s) : s[i] \notin DigitChars THEN "ValueError" ELSE "none"

\* positions at which the separator "_v" starts in s
SepPositions(s) == {i \in 1..(Len(s) - 1) : s[i] = "_" /\ s[i + 1] = "v"}

Max(S) == CHOOSE x \in S : \A y \in S : y <= x

build_asset_id(stable_id, version) == stable_id \o <<"_", "v">> \o IntToStr(version)

Min(S) == CHOOSE x \in S : \A y \in S : x <= y

\* the result <<stable id, version, exception>> of a parse_asset_id that splits at
\* position p of asset_id
SplitAt(asset_id, p) ==
    LET head == SubSeq(asset_id, 1, p - 1)
        tail == SubSeq(asset_id, p + 2, Len(asset_id))
    IN IF isdigit(tail)
       THEN IF IntExc(tail) # "none" THEN <<asset_id, 0, IntExc(tail)>>
            ELSE <<head, StrToInt(tail), "none">>
       ELSE <<asset_id, 1, "none">>

\* a parser that splits at the first separator
parse_asset_id_first(asset_id) ==
    IF SepPositions(asset_id) # {}
    THEN SplitAt(asset_id, Min(SepPositions(asset_id)))
    ELSE <<asset_id, 1, "none">>

\* asset_id.rsplit('_v', 1): split at the last separator; digits after it or fall
\* back.  The result is <<stable id, version, "none">>, or <<asset_id, 0, exception>>
\* when the call raises.
parse_asset_id(asset_id) ==
    IF SepPositions(asset_id) # {}
    THEN SplitAt(asset_id, Max(SepPositions(asset_id)))
    ELSE <<asset_id, 1, "none">>

(***************************************************************************)
(* storage.py: StorageRepository.  The four create_*_asset / get_*_asset   *)
(* methods differ only in the directory (kind) they work on.               *)
(***************************************************************************)
Kinds == {"scripts", "plans", "shot_plans", "images"}

EmptyMap == [x \in {} |-> x]

\* _update_asset_index: read the index, add the version, latest := max, write it back
IndexAdd(idx, stable_id, version) ==
    LET entry == IF stable_id \in DOMAIN idx THEN idx[stable_id]
                 ELSE [versions |-> <<>>, latest |-> version]
        seen == \E i \in 1..Len(entry.versions) : entry.versions[i] = version
        versions == IF seen THEN entry.versions ELSE Append(entry.versions, version)
    IN (stable_id :> [versions |-> versions,
                      latest |-> Max({versions[i] : i \in 1..Len(versions)})]) @@ idx

\* an index whose latest is the version written last
_update_asset_index_last(idx, stable_id, version) ==
    (stable_id :> [versions |-> IndexAdd(idx, stable_id, version)[stable_id].versions,
                   latest |-> version]) @@ idx

_update_asset_index(idx, stable_id, version) == IndexAdd(idx, stable_id, version)

\* _save_json(path, asset.model_dump()) with path = <dir>/<build_asset_id>.json
SaveAsset(dir, stable_id, version, asset) ==
    (build_asset_id(stable_id, version) :> asset) @@ dir

\* a store that names the file by the stable id alone
create_asset_files_unversioned(fs, pid, kind, stable_id, version, asset) ==
    [fs EXCEPT ![pid][kind] = (stable_id :> asset) @@ fs[pid][kind]]

\* create_*_asset: write the file of (stable id, version) in the directory of the
\* asset's project; nothing is checked before the write
create_asset_files(fs, pid, kind, stable_id, version, asset) ==
    [fs EXCEPT ![pid][kind] = SaveAsset(fs[pid][kind], stable_id, version, asset)]

\* create_*_asset: then update the index of that directory
create_asset_index(ix, pid, kind, stable_id, version) ==
    [ix EXCEPT ![pid][kind] = _update_asset_index(ix[pid][kind], stable_id, version)]

\* _get_latest_version: None when the id is not in the index
_get_latest_version(ix, pid, kind, stable_id) ==
    IF stable_id \in DOMAIN ix[pid][kind]
    THEN Some(ix[pid][kind][stable_id].latest) ELSE None

\* get_*_asset(project_id, id, version=None)
get_asset(fs, ix, pid, kind, stable_id, version) ==
    LET v == IF version = None THEN _get_latest_version(ix, pid, kind, stable_id)
             ELSE version
    IN IF v = None THEN None
       ELSE IF build_asset_id(stable_id, v[1]) \in DOMAIN fs[pid][kind]
            THEN Some(fs[pid][kind][build_asset_id(stable_id, v[1])])
            ELSE None

(***************************************************************************)
(* Documents: what model_dump() returns and json holds.  A value is a      *)
(* tagged record: a dict (function from keys), a list (sequence), or a     *)
(* scalar.  A "ref" is a str held as a character sequence (an id or asset  *)
(* reference), a "str" any other str, held whole.                          *)
(***************************************************************************)
DStr(s) == [str |-> s]
DRef(s) == [ref |-> s]
DInt(n) == [int |-> n]
DNone == [none |-> "None"]
DDict(f) == [dict |-> f]
DList(q) == [list |-> q]

\* type(x) and the value it holds
Kind(x) == CHOOSE t \in DOMAIN x : TRUE
Val(x) == x[Kind(x)]

IsStr(x) == Kind(x) \in {"str", "ref"}

DictSet(f, key, val) == (key :> val) @@ f
DictDel(f, key) == [x \in DOMAIN f \ {key} |-> f[x]]
SeqSet(q, i, val) == [q EXCEPT ![i] = val]
SeqDel(q, i) == SubSeq(q, 1, i - 1) \o SubSeq(q, i + 1, Len(q))

\* a dict key that is the int n (current[0] = value on a dict)
IntKey(n) == "int:" \o ToString(n)

(***************************************************************************)
(* plan_editing.py: _parse_path.  A path is the sequence of its lexemes:   *)
(* ".", "[", "]" and the pieces of text between them; a numeric index is   *)
(* given one digit per piece.                                              *)
(***************************************************************************)
Key(name) == [t |-> "key", name |-> name]
Idx(i) == [t |-> "idx", i |-> i]
IdLookup(list_key, item_id) == [t |-> "id", list_key |-> list_key, item_id |-> item_id]

RECURSIVE Join(_)
Join(q) == IF Len(q) = 0 THEN "" ELSE Head(q) \o Join(Tail(q))

\* path.index(']', i): the first "]" at or after position i, 0 when there is none
IndexOfClose(path, i) ==
    LET S == {j \in i..Len(path) : path[j] = "]"}
    IN IF S = {} THEN 0 ELSE CHOOSE j \in S : \A m \in S : j <= m

\* the while loop of _parse_path from position i, with its locals parts, current and
\* list_key (None while unbound); result [parts, exc]
RECURSIVE ParseFrom(_, _, _, _, _)
ParseFrom(path, i, parts, current, list_key) ==
    IF i > Len(path)
    THEN [parts |-> IF current # "" THEN Append(parts, Key(current)) ELSE parts,
          exc |-> "none"]
    ELSE IF path[i] = "."
    THEN ParseFrom(path, i + 1,
                   IF current # "" THEN Append(parts, Key(current)) ELSE parts,
                   "", list_key)
    ELSE IF path[i] = "["
    THEN LET lk == IF current # "" THEN Some(current) ELSE list_key
             j == IndexOfClose(path, i)
             index_str == SubSeq(path, i + 1, j - 1)
         IN IF j = 0 THEN [parts |-> parts, exc |-> "ValueError"]
            ELSE IF lk = None THEN [parts |-> parts, exc |-> "UnboundLocalError"]
            ELSE IF isdigit(index_str) /\ IntExc(index_str) # "none"
            THEN [parts |-> parts, exc |-> IntExc(index_str)]
            ELSE IF isdigit(index_str)
            THEN ParseFrom(path, j + 1,
                           parts \o <<Key(lk[1]), Idx(StrToInt(index_str))>>, "", lk)
            ELSE ParseFrom(path, j + 1,
                           Append(parts, IdLookup(lk[1], Join(index_str))), "", lk)
    ELSE ParseFrom(path, i + 1, parts, current \o path[i], list_key)

_parse_path(path) == ParseFrom(path, 1, <<>>, "", None)

_get_id_field_for_list(list_key) ==
    CASE list_key = "characters" -> "character_id"
      [] list_key = "locations" -> "location_id"
      [] list_key = "props_wardrobe" -> "prop_id"
      [] list_key = "scenes" -> "scene_id"
      [] OTHER -> "id"

(***************************************************************************)
(* plan_editing.py: _apply_single_patch.  Every result is [data, exc]:     *)
(* the (possibly already changed) structure and the exception raised,      *)
(* "none" when the call returns.  Taking a character out of a str value by *)
(* an index is not modelled: no path of the model does it.                 *)
(***************************************************************************)
Raise(data, exc) == [data |-> data, exc |-> exc]
Return(data) == [data |-> data, exc |-> "none"]

\* item.get(id_field) == item_id
ItemMatches(item, id_field, item_id) ==
    /\ id_field \in DOMAIN Val(item)
    /\ Kind(Val(item)[id_field]) = "str"
    /\ Val(Val(item)[id_field]) = item_id

\* items = current.get(list_key, [])
GetItems(current, list_key) ==
    IF list_key \in DOMAIN Val(current) THEN Val(current)[list_key] ELSE DList(<<>>)

\* for item in items: if item.get(id_field) == item_id: ... break
\* [pos, exc]: the position of the first match (0: none); an item that is no dict
\* met before the match has no .get
FindItem(items, id_field, item_id) ==
    CASE Kind(items) = "list" ->
           LET stops == {i \in 1..Len(Val(items)) :
                            \/ Kind(Val(items)[i]) # "dict"
                            \/ ItemMatches(Val(items)[i], id_field, item_id)}
               first == IF stops = {} THEN 0
                        ELSE CHOOSE i \in stops : \A j \in stops : i <= j
           IN IF first = 0 THEN [pos |-> 0, exc |-> "none"]
              ELSE IF Kind(Val(items)[first]) # "dict" THEN [pos |-> 0, exc |-> "AttributeError"]
              ELSE [pos |-> first, exc |-> "none"]
      [] Kind(items) = "dict" ->
           [pos |-> 0, exc |-> IF DOMAIN Val(items) = {} THEN "none" ELSE "AttributeError"]
      [] Kind(items) = "str" ->
           [pos |-> 0, exc |-> IF Val(items) = "" THEN "none" ELSE "AttributeError"]
      [] Kind(items) = "ref" ->
           [pos |-> 0, exc |-> IF Val(items) = <<>> THEN "none" ELSE "AttributeError"]
      [] OTHER -> [pos |-> 0, exc |-> "TypeError"]

\* the final part under op "replace"
ReplaceFinal(current, part, value) ==
    CASE part.t = "key" ->
           IF Kind(current) = "dict" THEN Return(DDict(DictSet(Val(current), part.name, value)))
           ELSE Raise(current, "TypeError")
      [] part.t = "idx" ->
           IF Kind(current) = "list"
           THEN IF part.i < Len(Val(current))
                THEN Return(DList(SeqSet(Val(current), part.i + 1, value)))
                ELSE Raise(current, "IndexError")
           ELSE IF Kind(current) = "dict"
           THEN Return(DDict(DictSet(Val(current), IntKey(part.i), value)))
           ELSE Raise(current, "TypeError")
      [] OTHER ->
           IF Kind(current) # "dict" THEN Raise(current, "AttributeError")
           ELSE LET items == GetItems(current, part.list_key)
                    f == FindItem(items, _get_id_field_for_list(part.list_key), part.item_id)
                IN IF f.exc # "none" THEN Raise(current, f.exc)
                   ELSE IF f.pos = 0 THEN Return(current)
                   ELSE Return(DDict(DictSet(Val(current), part.list_key,
                                             DList(SeqSet(Val(items), f.pos, value)))))

\* the final part under op "add"
AddFinal(current, part, value) ==
    IF part.t = "key"
    THEN IF Kind(current) # "dict" THEN Raise(current, "TypeError")
         ELSE IF part.name \notin DOMAIN Val(current) THEN Raise(current, "KeyError")
         ELSE IF Kind(Val(current)[part.name]) = "list"
         THEN Return(DDict(DictSet(Val(current), part.name,
                                   DList(Append(Val(Val(current)[part.name]), value)))))
         ELSE Return(DDict(DictSet(Val(current), part.name, value)))
    ELSE Raise(current, "ValueError")

\* the final part under op "remove"
RemoveFinal(current, part) ==
    CASE part.t = "key" ->
           IF Kind(current) = "dict"
           THEN Return(DDict(DictDel(Val(current), part.name)))
           ELSE IF Kind(current) = "list"
           THEN IF \E i \in 1..Len(Val(current)) : Val(current)[i] = DStr(part.name)
                THEN Raise(current, "TypeError") ELSE Return(current)
           ELSE IF IsStr(current) THEN Return(current)
           ELSE Raise(current, "TypeError")
      [] part.t = "idx" ->
           IF Kind(current) = "list"
           THEN IF part.i < Len(Val(current))
                THEN Return(DList(SeqDel(Val(current), part.i + 1)))
                ELSE Raise(current, "IndexError")
           ELSE IF Kind(current) = "dict"
           THEN IF IntKey(part.i) \in DOMAIN Val(current)
                THEN Return(DDict(DictDel(Val(current), IntKey(part.i))))
                ELSE Raise(current, "KeyError")
           ELSE Raise(current, "AttributeError")
      [] OTHER ->
           IF Kind(current) # "dict" THEN Raise(current, "AttributeError")
           ELSE LET items == GetItems(current, part.list_key)
                    id_field == _get_id_field_for_list(part.list_key)
                IN CASE Kind(items) = "list" ->
                          IF \E i \in 1..Len(Val(items)) : Kind(Val(items)[i]) # "dict"
                          THEN Raise(current, "AttributeError")
                          ELSE Return(DDict(DictSet(Val(current), part.list_key,
                                 DList(SelectSeq(Val(items),
                                     LAMBDA item : ~ItemMatches(item, id_field, part.item_id))))))
                     [] Kind(items) \in {"dict", "str", "ref"} ->
                          IF FindItem(items, id_field, part.item_id).exc = "none"
                          THEN Return(DDict(DictSet(Val(current), part.list_key, DList(<<>>))))
                          ELSE Raise(current, "AttributeError")
                     [] OTHER -> Raise(current, "TypeError")

\* lines 78-119: the operation on the final part; an op that is none of the three
\* falls through every branch
FinalOp(current, part, op, value) ==
    CASE op = "replace" -> ReplaceFinal(current, part, value)
      [] op = "add" -> AddFinal(current, part, value)
      [] op = "remove" -> RemoveFinal(current, part)
      [] OTHER -> Return(current)

\* lines 53-76 and the operation: walk parts[:-1] from current, then apply the
\* operation to the last part; the walk changes the structure it walks in place
RECURSIVE Walk(_, _, _, _)
Walk(current, parts, op, value) ==
    LET part == Head(parts)
        rest == Tail(parts)
    IN IF Len(parts) = 1 THEN FinalOp(current, part, op, value)
       ELSE CASE part.t = "key" ->
                   IF Kind(current) # "dict" THEN Raise(current, "TypeError")
                   ELSE LET made == IF part.name \in DOMAIN Val(current) THEN Val(current)
                                    ELSE DictSet(Val(current), part.name, DDict(<<>>))
                            r == Walk(made[part.name], rest, op, value)
                        IN [data |-> DDict(DictSet(made, part.name, r.data)), exc |-> r.exc]
              [] part.t = "idx" ->
                   IF Kind(current) = "list"
                   THEN IF part.i < Len(Val(current))
                        THEN LET r == Walk(Val(current)[part.i + 1], rest, op, value)
                             IN [data |-> DList(SeqSet(Val(current), part.i + 1, r.data)),
                                 exc |-> r.exc]
                        ELSE Raise(current, "IndexError")
                   ELSE IF Kind(current) = "dict"
                   THEN IF IntKey(part.i) \in DOMAIN Val(current)
                        THEN LET r == Walk(Val(current)[IntKey(part.i)], rest, op, value)
                             IN [data |-> DDict(DictSet(Val(current), IntKey(part.i), r.data)),
                                 exc |-> r.exc]
                        ELSE Raise(current, "KeyError")
                   ELSE Raise(current, "TypeError")
              [] OTHER ->
                   IF Kind(current) # "dict" THEN Raise(current, "AttributeError")
                   ELSE LET items == GetItems(current, part.list_key)
                            f == FindItem(items, _get_id_field_for_list(part.list_key),
                                          part.item_id)
                        IN IF f.exc # "none" THEN Raise(current, f.exc)
                           ELSE IF f.pos = 0 THEN Raise(current, "ValueError")
                           ELSE LET r == Walk(Val(items)[f.pos], rest, op, value)
                                IN [data |-> DDict(DictSet(Val(current), part.list_key,
                                                 DList(SeqSet(Val(items), f.pos, r.data)))),
                                    exc |-> r.exc]

_apply_single_patch(data, path, op, value) ==
    IF path = <<>> THEN Return(data)
    ELSE LET parsed == _parse_path(path)
         IN IF parsed.exc # "none" THEN Raise(data, parsed.exc)
            ELSE IF parsed.parts = <<>> THEN Raise(data, "IndexError")
            ELSE Walk(data, parsed.parts, op, value)

\* patch.get(key, default): a patch is a dict that may lack any of its keys
PatchGet(patch, key, default) == IF key \in DOMAIN patch THEN patch[key] ELSE default

\* a loop that takes the patches last to first
RECURSIVE PatchLoopBackwards(_, _, _)
PatchLoopBackwards(plan_dict, patch_list, i) ==
    IF i > Len(patch_list) THEN Return(plan_dict)
    ELSE LET p == patch_list[Len(patch_list) + 1 - i]
             r == _apply_single_patch(plan_dict,
                                      PatchGet(p, "path", <<>>),
                                      PatchGet(p, "op", "replace"),
                                      PatchGet(p, "value", DNone))
         IN IF r.exc # "none" THEN r ELSE PatchLoopBackwards(r.data, patch_list, i + 1)

\* apply_patches lines 26-31: the loop over the patches from the i-th on, each on the
\* plan_dict the ones before it left; a raise ends the loop
RECURSIVE PatchLoop(_, _, _)
PatchLoop(plan_dict, patch_list, i) ==
    IF i > Len(patch_list) THEN Return(plan_dict)
    ELSE LET r == _apply_single_patch(plan_dict,
                                      PatchGet(patch_list[i], "path", <<>>),
                                      PatchGet(patch_list[i], "op", "replace"),
                                      PatchGet(patch_list[i], "value", DNone))
         IN IF r.exc # "none" THEN r ELSE PatchLoop(r.data, patch_list, i + 1)

\* schemas.py Project: the active pointers of a new project
NoProject == [active_script_asset_id |-> None,
              active_plan_asset_id |-> None,
              active_shot_plan_asset_id |-> None]

\* create_project: the project directory and project.json
NoFiles == [k \in Kinds |-> EmptyMap]

(***************************************************************************)
(* schemas.py: building a PlanAsset from plan_dict.  Of its fields these    *)
(* are                                                                     *)
(* kept: plan_id, version, status, parent_plan_asset_id, project_id,       *)
(* project_bible (title, pacing), characters (character_id, name,          *)
(* wardrobe_lock), locations (location_id) and scenes (scene_id).  Keys    *)
(* that are no field are ignored, fields left out take their defaults, a   *)
(* wrong type is a ValidationError.                                        *)
(***************************************************************************)
AssetStatuses == {"draft", "accepted", "archived"}

HasStr(f, key) == key \in DOMAIN f /\ IsStr(f[key])
OptionalStr(f, key) == key \in DOMAIN f => (IsStr(f[key]) \/ f[key] = DNone)
FieldOr(f, key, default) == IF key \in DOMAIN f THEN f[key] ELSE default

ValidProjectBible(b) ==
    /\ Kind(b) = "dict"
    /\ HasStr(Val(b), "title")
    /\ "pacing" \in DOMAIN Val(b) => IsStr(Val(b)["pacing"])

ProjectBible(b) ==
    DDict([title |-> Val(b)["title"], pacing |-> FieldOr(Val(b), "pacing", DStr("medium"))])

ValidCharacter(c) ==
    /\ Kind(c) = "dict"
    /\ HasStr(Val(c), "character_id")
    /\ HasStr(Val(c), "name")
    /\ OptionalStr(Val(c), "wardrobe_lock")

Character(c) ==
    DDict([character_id |-> Val(c)["character_id"], name |-> Val(c)["name"],
           wardrobe_lock |-> FieldOr(Val(c), "wardrobe_lock", DNone)])

\* schemas.py Location, Scene: of each only the id is kept
ValidEntity(c, id_field) == Kind(c) = "dict" /\ HasStr(Val(c), id_field)

Entity(c, id_field) == DDict([f \in {id_field} |-> Val(c)[f]])

ValidEntities(d, field, id_field) ==
    field \in DOMAIN Val(d) =>
        /\ Kind(Val(d)[field]) = "list"
        /\ \A i \in 1..Len(Val(Val(d)[field])) : ValidEntity(Val(Val(d)[field])[i], id_field)

Entities(d, field, id_field) ==
    LET cs == Val(FieldOr(Val(d), field, DList(<<>>)))
    IN DList([i \in 1..Len(cs) |-> Entity(cs[i], id_field)])

ValidPlanAsset(d) ==
    /\ HasStr(Val(d), "plan_id")
    /\ "version" \in DOMAIN Val(d) /\ Kind(Val(d)["version"]) = "int"
    /\ HasStr(Val(d), "project_id")
    /\ "status" \in DOMAIN Val(d) =>
          (Kind(Val(d)["status"]) = "str" /\ Val(Val(d)["status"]) \in AssetStatuses)
    /\ OptionalStr(Val(d), "parent_plan_asset_id")
    /\ "project_bible" \in DOMAIN Val(d) /\ ValidProjectBible(Val(d)["project_bible"])
    /\ "characters" \in DOMAIN Val(d) =>
          /\ Kind(Val(d)["characters"]) = "list"
          /\ \A i \in 1..Len(Val(Val(d)["characters"])) : ValidCharacter(Val(Val(d)["characters"])[i])
    /\ ValidEntities(d, "locations", "location_id")
    /\ ValidEntities(d, "scenes", "scene_id")

\* a keyword argument has to be a str
IsIntKey(key) == \E n \in 0..9 : key = IntKey(n)

PlanAssetFromDict(d) ==
    IF \E key \in DOMAIN Val(d) : IsIntKey(key) THEN Raise(d, "TypeError")
    ELSE IF ~ValidPlanAsset(d) THEN Raise(d, "ValidationError")
    ELSE Return(DDict(
        [plan_id |-> Val(d)["plan_id"],
         version |-> Val(d)["version"],
         status |-> FieldOr(Val(d), "status", DStr("draft")),
         parent_plan_asset_id |-> FieldOr(Val(d), "parent_plan_asset_id", DNone),
         project_id |-> Val(d)["project_id"],
         project_bible |-> ProjectBible(Val(d)["project_bible"]),
         characters |->
            LET cs == Val(FieldOr(Val(d), "characters", DList(<<>>)))
            IN DList([i \in 1..Len(cs) |-> Character(cs[i])]),
         locations |-> Entities(d, "locations", "location_id"),
         scenes |-> Entities(d, "scenes", "scene_id")]))

\* plan.model_dump(): a new dict holding copies of all the fields
model_dump(asset) == asset

\* apply_patches, as a function of the plan's value
apply_patches(asset, patch_list) ==
    LET r == PatchLoop(model_dump(asset), patch_list, 1)
    IN IF r.exc # "none" THEN r ELSE PlanAssetFromDict(r.data)

(***************************************************************************)
(* Patch engine specification: one apply_patches call on a PlanAsset held  *)
(* by the caller.  Objects live in objs under references, so that a        *)
(* change made through one reference shows through every other one.        *)
(***************************************************************************)
NoCall == [op |-> "none", partial |-> FALSE]

NoWriters == <<>>

\* no call of the continuity checks or of the id codec is under way
NoCalls ==
    /\ loop = [pc |-> "idle"]
    /\ qa = [pc |-> "idle"]
    /\ codec = [pc |-> "idle"]
    /\ checks = [pc |-> "idle"]
    /\ ops = <<>>

NoPatchCall ==
    /\ objs = <<>>
    /\ plan = 0
    /\ patches = <<>>
    /\ out = [exc |-> "idle", ref |-> None]
    /\ given = DNone

\* a reference not in use
NewRef(heap) == Len(heap) + 1

\* a dump that hands out the plan's own fields instead of copies
model_dump_alias(heap, p) == p

\* the reference of the dict plan.model_dump() builds
model_dump_ref(heap, p) == NewRef(heap)

CharAlice == DDict([character_id |-> DStr("CHAR_01"), name |-> DStr("Alice"),
                    wardrobe_lock |-> DStr("Blue dress")])
CharBob == DDict([character_id |-> DStr("CHAR_02"), name |-> DStr("Bob")])

PlanId1 == <<"p", "l", "a", "n", "_", "1">>

PlanLocations == DList(<<DDict([location_id |-> DStr("LOC_01")])>>)
PlanScenes == DList(<<DDict([scene_id |-> DStr("SC001")]), DDict([scene_id |-> DStr("SC002")])>>)

PlanDoc(plan_id, version, project_id, characters) ==
    DDict([plan_id |-> DRef(plan_id),
           version |-> DInt(version),
           status |-> DStr("draft"),
           parent_plan_asset_id |-> DNone,
           project_id |-> DStr(project_id),
           project_bible |-> DDict([title |-> DStr("Original Title"),
                                    pacing |-> DStr("medium")]),
           characters |-> DList(characters),
           locations |-> PlanLocations,
           scenes |-> PlanScenes])

GivenPlans == {PlanDoc(PlanId1, 1, "proj_1", <<CharAlice>>),
               PlanDoc(PlanId1, 1, "proj_1", <<>>)}

PatchPaths == {
    <<"project_bible", ".", "title">>,
    <<"characters">>,
    <<"characters", "[", "0", "]">>,
    <<"characters", "[", "CHAR_01", "]">>,
    <<"characters", "[", "CHAR_01", "]", ".", "name">>,
    <<"characters", "[", "CHAR_01", "]", ".", "wardrobe_lock">>,
    <<"characters", "[", "CHAR_99", "]">>,
    <<"characters", "[", "CHAR_99", "]", ".", "name">>,
    <<"characters", "[", "CHAR_01">>,
    <<"notes", ".", "mood">>}

PatchOps == {"replace", "add", "remove", "upsert"}

Patch(path, op, value) == [path |-> path, op |-> op, value |-> value]

PatchUniverse ==
    {Patch(p, o, DStr("X")) : p \in PatchPaths, o \in PatchOps}
    \cup {Patch(<<"characters">>, "add", CharBob),
          Patch(<<"characters", "[", "CHAR_01", "]">>, "replace", CharBob),
          Patch(<<"characters", "[", "CHAR_02", "]", ".", "name">>, "replace", DStr("X")),
          Patch(<<"project_id">>, "replace", DStr("proj_2")),
          [path |-> <<"project_bible", ".", "title">>, value |-> DStr("Y")],
          [op |-> "replace", value |-> DStr("Y")]}

RECURSIVE SeqsUpTo(_, _)
SeqsUpTo(S, n) ==
    IF n = 0 THEN {<<>>}
    ELSE LET shorter == SeqsUpTo(S, n - 1)
         IN shorter \cup {Append(q, x) : q \in {r \in shorter : Len(r) = n - 1}, x \in S}

InitPatch ==
    /\ files = [p \in {"proj_1"} |-> NoFiles]
    /\ index = [p \in {"proj_1"} |-> NoFiles]
    /\ project = [p \in {"proj_1"} |-> NoProject]
    /\ ret = "ok"
    /\ hist = EmptyMap
    /\ last = "none"
    /\ call = NoCall
    /\ writers = NoWriters
    /\ NoCalls
    /\ given \in GivenPlans
    /\ objs = <<given>>
    /\ plan = 1
    /\ patches \in SeqsUpTo(PatchUniverse, MaxPatches)
    /\ out = [exc |-> "idle", ref |-> None]

\* apply_patches(plan, patches), lines 23-34
ApplyPatchesCall ==
    /\ out.exc = "idle"
    /\ LET dump == model_dump_ref(objs, plan)
           heap1 == IF dump = plan THEN objs ELSE Append(objs, model_dump(objs[plan]))
           r == PatchLoop(heap1[dump], patches, 1)
           heap2 == [heap1 EXCEPT ![dump] = r.data]
           made == PlanAssetFromDict(r.data)
       IN IF r.exc # "none"
          THEN objs' = heap2 /\ out' = [exc |-> r.exc, ref |-> None]
          ELSE IF made.exc # "none"
          THEN objs' = heap2 /\ out' = [exc |-> made.exc, ref |-> None]
          ELSE /\ objs' = Append(heap2, made.data)
               /\ out' = [exc |-> "none", ref |-> Some(NewRef(heap2))]
    /\ UNCHANGED <<plan, patches, given, repoVars, concVars, callVars>>

NextPatch == ApplyPatchesCall

SpecPatch == InitPatch /\ [][NextPatch]_vars

(***************************************************************************)
(* Repository specification: any sequence of create_*_asset calls.         *)
(***************************************************************************)
StableIds == {<<"a">>, <<"a", "_", "v", "1">>}
Bodies == {"x", "y"}
Versions == 1..MaxVersion

PutCount == LET S == DOMAIN hist IN
    IF S = {} THEN 0 ELSE
    LET RECURSIVE Sum(_)
        Sum(T) == IF T = {} THEN 0
                  ELSE LET k == CHOOSE k \in T : TRUE IN hist[k].n + Sum(T \ {k})
    IN Sum(S)

InitRepo ==
    /\ files = [p \in {"proj_1"} |-> NoFiles]
    /\ index = [p \in {"proj_1"} |-> NoFiles]
    /\ project = [p \in {"proj_1"} |-> NoProject]
    /\ ret = "ok"
    /\ hist = EmptyMap
    /\ last = "none"
    /\ call = NoCall
    /\ writers = NoWriters
    /\ NoCalls
    /\ NoPatchCall

HistAdd(h, kind, asset) ==
    LET k == <<kind, asset.stable_id, asset.version>>
    IN IF k \in DOMAIN h
       THEN [h EXCEPT ![k] = [first |-> h[k].first, n |-> h[k].n + 1]]
       ELSE (k :> [first |-> asset, n |-> 1]) @@ h

RepoCreate(kind, asset) ==
    /\ PutCount < MaxPuts
    /\ files' = create_asset_files(files, asset.project_id, kind,
                                   asset.stable_id, asset.version, asset)
    /\ index' = create_asset_index(index, asset.project_id, kind,
                                   asset.stable_id, asset.version)
    /\ ret' = "ok"
    /\ hist' = HistAdd(hist, kind, asset)
    /\ last' = LET found == get_asset(files, index, asset.project_id, kind,
                                      asset.stable_id, Some(asset.version))
               IN IF found = None THEN "fresh"
                  ELSE IF found = Some(asset) THEN "same" ELSE "conflict"
    /\ UNCHANGED <<project, patchVars, call, concVars, callVars>>

RepoAssets == [project_id : {"proj_1"}, stable_id : StableIds, version : Versions,
               body : Bodies]

create_script_asset == \E a \in RepoAssets : RepoCreate("scripts", a)
create_plan_asset == \E a \in RepoAssets : RepoCreate("plans", a)
create_shot_plan_asset == \E a \in RepoAssets : RepoCreate("shot_plans", a)
create_image_asset == \E a \in RepoAssets : RepoCreate("images", a)

NextRepo ==
    \/ create_script_asset
    \/ create_plan_asset
    \/ create_shot_plan_asset
    \/ create_image_asset

SpecRepo == InitRepo /\ [][NextRepo]_vars

HistKeys(kind, stable_id) == {k \in DOMAIN hist : k[1] = kind /\ k[2] = stable_id}

\* C1: a key stored once keeps the content stored under it, whatever else is
\* stored afterwards: get_*(project, id, v) returns exactly that asset.
C1_OldVersionsKept ==
    \A k \in DOMAIN hist :
        hist[k].n = 1 => get_asset(files, index, "proj_1", k[1], k[2], Some(k[3])) = Some(hist[k].first)

C1_Witness ==
    \E kind \in Kinds, id \in StableIds :
        /\ PutCount = 3
        /\ {<<kind, id, 1>>, <<kind, id, 2>>} \subseteq DOMAIN hist
        /\ id \in DOMAIN index["proj_1"][kind]
        /\ \A k \in DOMAIN hist : hist[k].n = 1
        /\ index["proj_1"][kind][id].versions = <<1, 2>>
        /\ hist[<<kind, id, 1>>].first.body # hist[<<kind, id, 2>>].first.body
        /\ get_asset(files, index, "proj_1", kind, id, Some(1)) = Some(hist[<<kind, id, 1>>].first)

\* C2: get_*(project, id, None) returns the stored asset of the highest version
\* ever stored for the id, and None exactly when no version of it was stored.
C2_LatestIsHighest ==
    \A kind \in Kinds, id \in StableIds :
        LET vs == {k[3] : k \in HistKeys(kind, id)}
            got == get_asset(files, index, "proj_1", kind, id, None)
        IN IF vs = {} THEN got = None
           ELSE /\ got # None
                /\ got[1].stable_id = id
                /\ got[1].version = Max(vs)
                /\ got = Some(files["proj_1"][kind][build_asset_id(id, Max(vs))])

C2_Witness ==
    \E kind \in Kinds, id \in StableIds :
        /\ id \in DOMAIN index["proj_1"][kind]
        /\ index["proj_1"][kind][id].versions = <<2, 1>>
        /\ get_asset(files, index, "proj_1", kind, id, None) # None
        /\ get_asset(files, index, "proj_1", kind, id, None)[1].version = 2

\* C4: a create on a key that already holds different content fails with a
\* conflict error and changes neither the stored asset nor the index; a re-put
\* of identical content succeeds and changes nothing.
C4_ConflictingCreateFails ==
    [][/\ last' = "conflict" => (ret' = "ConflictError" /\ files' = files /\ index' = index)
       /\ last' = "same" => (ret' = "ok" /\ files' = files /\ index' = index)]_vars

(***************************************************************************)
(* continuity.py and pipeline.py: the continuity checks of a shot list and *)
(* the repair loop.  A Shot keeps shot_id, scene_id, shot_index_in_scene,  *)
(* location_id, characters, continuity_lock (a character sequence),        *)
(* negative_prompt, state_in and state_out (time_of_day, weather,          *)
(* props_held); a QAIssue keeps severity, issue_type and shot_id.  What    *)
(* the model service answers is [raises, result]: whether generate_json    *)
(* raised after its retries, else the JSON object it returned.             *)
(***************************************************************************)
MAX_REPAIR_ITERATIONS == 2
CriticIssueLimit == 10

Severities == {"error", "warning", "info"}

\* schemas.py QAIssue.  The message is the sequence of the words that tell the
\* issues of one type apart and of the field values the f-string puts in it; the
\* lists and sets a message prints (indices, duplicate ids, props) are left out.
QAIssue(severity, issue_type, message, shot_id) ==
    [severity |-> severity, issue_type |-> issue_type, message |-> message,
     shot_id |-> shot_id]

RECURSIVE ConcatAll(_)
ConcatAll(ss) == IF ss = <<>> THEN <<>> ELSE Head(ss) \o ConcatAll(Tail(ss))

IssueIf(cond, issue) == IF cond THEN <<issue>> ELSE <<>>

\* {x.<id_field> for x in plan.<field>}
EntityIds(plan_asset, field, id_field) ==
    LET xs == Val(Val(plan_asset)[field])
    IN {Val(Val(xs[i])[id_field]) : i \in 1..Len(xs)}

\* a check of the scene reference alone
_validate_missing_entities_scenes(plan_asset, shot_plan) ==
    LET scene_ids == EntityIds(plan_asset, "scenes", "scene_id")
        OfShot(shot) ==
            IssueIf(shot.scene_id \notin scene_ids,
                    QAIssue("error", "missing_entity", <<"scene", shot.shot_id, shot.scene_id>>,
                            Some(shot.shot_id)))
    IN ConcatAll([i \in 1..Len(shot_plan.shots) |-> OfShot(shot_plan.shots[i])])

_validate_missing_entities(plan_asset, shot_plan) ==
    LET character_ids == EntityIds(plan_asset, "characters", "character_id")
        location_ids == EntityIds(plan_asset, "locations", "location_id")
        scene_ids == EntityIds(plan_asset, "scenes", "scene_id")
        missing(shot, what, id) ==
            QAIssue("error", "missing_entity", <<what, shot.shot_id, id>>, Some(shot.shot_id))
        OfShot(shot) ==
            IssueIf(shot.scene_id \notin scene_ids, missing(shot, "scene", shot.scene_id))
            \o IssueIf(shot.location_id \notin location_ids,
                       missing(shot, "location", shot.location_id))
            \o ConcatAll([j \in 1..Len(shot.characters) |->
                             IssueIf(shot.characters[j] \notin character_ids,
                                     missing(shot, "character", shot.characters[j]))])
    IN ConcatAll([i \in 1..Len(shot_plan.shots) |-> OfShot(shot_plan.shots[i])])

\* the keys of shots_by_scene, in the order a dict keeps: that of first insertion
RECURSIVE SceneOrder(_)
SceneOrder(shots) ==
    IF shots = <<>> THEN <<>>
    ELSE LET before == SceneOrder(SubSeq(shots, 1, Len(shots) - 1))
             scene_id == shots[Len(shots)].scene_id
         IN IF \E i \in 1..Len(before) : before[i] = scene_id THEN before
            ELSE Append(before, scene_id)

\* shots_by_scene[scene_id]
ShotsOfScene(shots, scene_id) == SelectSeq(shots, LAMBDA shot : shot.scene_id = scene_id)

\* the shots left in list order
SortByIndex_none(shots) == shots

\* sorted(shots, key=shot_index_in_scene): stable
RECURSIVE SortByIndex(_)
SortByIndex(shots) ==
    IF shots = <<>> THEN <<>>
    ELSE LET before == SortByIndex(SubSeq(shots, 1, Len(shots) - 1))
             shot == shots[Len(shots)]
             k == Cardinality({i \in 1..Len(before) :
                                  before[i].shot_index_in_scene <= shot.shot_index_in_scene})
         IN SubSeq(before, 1, k) \o <<shot>> \o SubSeq(before, k + 1, Len(before))

_validate_uniqueness_and_order(shot_plan) ==
    LET shots == shot_plan.shots
        shot_ids == [i \in 1..Len(shots) |-> shots[i].shot_id]
        scenes == SceneOrder(shots)
        OfScene(scene_id) ==
            LET sorted == SortByIndex(ShotsOfScene(shots, scene_id))
            IN IssueIf([i \in 1..Len(sorted) |-> sorted[i].shot_index_in_scene]
                          # [i \in 1..Len(sorted) |-> i - 1],
                       QAIssue("warning", "order", <<scene_id>>, None))
    IN IssueIf(Len(shot_ids) # Cardinality({shot_ids[i] : i \in 1..Len(shot_ids)}),
               QAIssue("error", "uniqueness", <<>>, None))
       \o ConcatAll([s \in 1..Len(scenes) |-> OfScene(scenes[s])])

\* the characters str.strip() removes, of those the model writes
Whitespace == {" ", "\t", "\n"}

\* s == "" alone
IsBlank_empty(s) == s = <<>>

\* not s or s.strip() == ""
IsBlank(s) == \A i \in 1..Len(s) : s[i] \in Whitespace

_validate_required_fields(shot_plan) ==
    LET OfShot(shot) ==
            IssueIf(IsBlank(shot.continuity_lock),
                    QAIssue("error", "missing_field", <<"continuity_lock", shot.shot_id>>,
                            Some(shot.shot_id)))
            \o IssueIf(shot.negative_prompt = None,
                       QAIssue("warning", "missing_field",
                               <<"negative_prompt", shot.shot_id>>, Some(shot.shot_id)))
    IN ConcatAll([i \in 1..Len(shot_plan.shots) |-> OfShot(shot_plan.shots[i])])

\* a test for None alone
Truthy_set(x) == x # None

\* the truth value of an Optional[str]
Truthy(x) == x # None /\ x # Some("")

_validate_state_continuity(shot_plan) ==
    LET scenes == SceneOrder(shot_plan.shots)
        Between(shot_current, shot_next) ==
            LET state_out == shot_current.state_out
                state_in == shot_next.state_in
                conflict(severity, message) ==
                    QAIssue(severity, "state_conflict", message, Some(shot_next.shot_id))
                changes(what, value_out, value_in) ==
                    conflict("warning", <<what, shot_current.shot_id>> \o value_out
                                        \o <<shot_next.shot_id>> \o value_in)
            IN IssueIf(/\ Truthy(state_out.time_of_day) /\ Truthy(state_in.time_of_day)
                       /\ state_out.time_of_day # state_in.time_of_day,
                       changes("time_of_day", state_out.time_of_day, state_in.time_of_day))
               \o IssueIf(/\ Truthy(state_out.weather) /\ Truthy(state_in.weather)
                          /\ state_out.weather # state_in.weather,
                          changes("weather", state_out.weather, state_in.weather))
               \o IssueIf({state_out.props_held[i] : i \in 1..Len(state_out.props_held)}
                          # {state_in.props_held[i] : i \in 1..Len(state_in.props_held)},
                          conflict("info", <<"props_held", shot_current.shot_id,
                                             shot_next.shot_id>>))
        OfScene(scene_id) ==
            LET sorted == SortByIndex(ShotsOfScene(shot_plan.shots, scene_id))
            IN ConcatAll([i \in 1..(Len(sorted) - 1) |-> Between(sorted[i], sorted[i + 1])])
    IN ConcatAll([s \in 1..Len(scenes) |-> OfScene(scenes[s])])

\* gemini_client.py get_gemini_client: GeminiClient() raises when GOOGLE_API_KEY is
\* empty; configured tells whether it is set
get_gemini_client(configured) == IF configured THEN "none" ELSE "ValueError"

\* QAIssue(**issue): severity, issue_type and message are required
ValidQAIssue(issue) ==
    /\ {"severity", "issue_type", "message"} \subseteq DOMAIN issue
    /\ issue.severity \in Severities

\* _run_llm_critic: the client is fetched before the try; inside it every
\* exception gives []
_run_llm_critic(configured, critic) ==
    IF get_gemini_client(configured) # "none" THEN Raise(<<>>, get_gemini_client(configured))
    ELSE IF critic.raises THEN Return(<<>>)
    ELSE LET qa_issues == FieldOr(critic.result, "qa_issues", DList(<<>>))
         IN IF Kind(qa_issues) # "list" THEN Return(<<>>)
            ELSE IF \E i \in 1..Len(Val(qa_issues)) : ~ValidQAIssue(Val(qa_issues)[i])
            THEN Return(<<>>)
            ELSE Return([i \in 1..Len(Val(qa_issues)) |->
                            QAIssue(Val(qa_issues)[i].severity, Val(qa_issues)[i].issue_type,
                                    <<Val(qa_issues)[i].message>>,
                                    FieldOr(Val(qa_issues)[i], "shot_id", None))])

\* the issues of the four deterministic validators, in the order they are run
DeterministicIssues(plan_asset, shot_plan) ==
    _validate_missing_entities(plan_asset, shot_plan)
    \o _validate_uniqueness_and_order(shot_plan)
    \o _validate_required_fields(shot_plan)
    \o _validate_state_continuity(shot_plan)

\* validate_shot_plan: result [data, exc], data the issues
validate_shot_plan(plan_asset, shot_plan, use_llm_critic, configured, critic) ==
    LET issues == DeterministicIssues(plan_asset, shot_plan)
    IN IF use_llm_critic /\ Len(issues) < CriticIssueLimit
       THEN LET more == _run_llm_critic(configured, critic)
            IN IF more.exc # "none" THEN more ELSE Return(issues \o more.data)
       ELSE Return(issues)

\* the fields model_dump() leaves as datetime objects
DatetimeFields == {"created_at"}

\* json.dumps(obj, default=str when default_str): the exception it raises, a datetime
\* being serializable through default only
json_dumps(obj, default_str) ==
    IF ~default_str /\ DOMAIN obj \cap DatetimeFields # {} THEN "TypeError" ELSE "none"

\* repair_shot_plan: the client and the prompt are made before the try; result
\* [data, exc, requests], data the Optional repaired JSON, requests the number of
\* generate_json calls made
repair_shot_plan(shot_plan, configured, service) ==
    IF get_gemini_client(configured) # "none"
    THEN [data |-> None, exc |-> get_gemini_client(configured), requests |-> 0]
    ELSE IF json_dumps(shot_plan, FALSE) # "none"
    THEN [data |-> None, exc |-> json_dumps(shot_plan, FALSE), requests |-> 0]
    ELSE IF service.raises THEN [data |-> None, exc |-> "none", requests |-> 1]
    ELSE [data |-> Some(service.result), exc |-> "none", requests |-> 1]

\* StateDict(**data): every field has a default
StateDict(data) ==
    [time_of_day |-> FieldOr(data, "time_of_day", None),
     weather |-> FieldOr(data, "weather", None),
     props_held |-> FieldOr(data, "props_held", <<>>)]

\* the keys _parse_shot_plan_result reads with shot_data[...]
ShotRequired == {"shot_id", "scene_id", "shot_index_in_scene", "duration_s",
                 "location_id", "shot_type"}

\* the exception the loop body of _parse_shot_plan_result raises on shot_data:
\* CameraSetup(**camera_data) wants a shot_type, Shot(...) the required keys
ShotDataExc(shot_data) ==
    IF "shot_type" \notin DOMAIN FieldOr(shot_data, "camera", EmptyMap) THEN "ValidationError"
    ELSE IF ~(ShotRequired \subseteq DOMAIN shot_data) THEN "KeyError"
    ELSE "none"

Shot(shot_data) ==
    [shot_id |-> shot_data.shot_id,
     scene_id |-> shot_data.scene_id,
     shot_index_in_scene |-> shot_data.shot_index_in_scene,
     location_id |-> shot_data.location_id,
     characters |-> FieldOr(shot_data, "characters", <<>>),
     continuity_lock |-> FieldOr(shot_data, "continuity_lock", <<>>),
     negative_prompt |-> FieldOr(shot_data, "negative_prompt", Some("")),
     state_in |-> StateDict(FieldOr(shot_data, "state_in", EmptyMap)),
     state_out |-> StateDict(FieldOr(shot_data, "state_out", EmptyMap))]

\* _parse_shot_plan_result: result [data, exc]; shot_plan_id is what
\* generate_id("shotplan_") gives
_parse_shot_plan_result(result, project_id, plan_id, plan_version, shot_plan_id) ==
    LET shots == FieldOr(result, "shots", <<>>)
        bad == {i \in 1..Len(shots) : ShotDataExc(shots[i]) # "none"}
    IN IF bad # {} THEN Raise(None, ShotDataExc(shots[CHOOSE i \in bad : \A j \in bad : i <= j]))
       ELSE Return(Some([shot_plan_id |-> shot_plan_id,
                         version |-> 1,
                         status |-> "draft",
                         created_at |-> "utcnow",
                         parent_shot_plan_asset_id |-> None,
                         project_id |-> project_id,
                         plan_id |-> plan_id,
                         plan_version |-> plan_version,
                         shots |-> [i \in 1..Len(shots) |-> Shot(shots[i])]]))

\* a filter that lets every issue through
ErrorsOf_any(issues) == issues

\* pipeline.py line 344: the issues of severity "error"
ErrorsOf(issues) == SelectSeq(issues, LAMBDA issue : issue.severity = "error")

(***************************************************************************)
(* pipeline.py: _validate_and_repair_shot_plan.  A call is the record of   *)
(* its position (validate, repair, returned, raised), its arguments and    *)
(* locals (before is shot_plan as the last repair found it), and what it   *)
(* has done so far: validations counts the                                 *)
(* validate_shot_plan calls, clean those that gave no error, repairs the   *)
(* repair_shot_plan calls, requests the generate_json calls made for a     *)
(* repair, answers what the service gave to them, critiques the iterations *)
(* whose validation ran the critic.                                        *)
(***************************************************************************)
LoopStart(plan_asset, shot_plan) ==
    [pc |-> "validate", plan |-> plan_asset, given |-> shot_plan, shot_plan |-> shot_plan,
     iteration |-> 0, issues |-> <<>>, errors |-> <<>>, before |-> shot_plan,
     exc |-> "none",
     validations |-> 0, clean |-> 0, repairs |-> 0, requests |-> 0, answers |-> <<>>,
     critiques |-> <<>>]

\* continuity.py lines 39-40 on the loop's call of line 343: whether this validation
\* runs the critic
CriticRuns(st) ==
    st.iteration = 0 /\ Len(DeterministicIssues(st.plan, st.shot_plan)) < CriticIssueLimit

\* lines 342-350: validate, with the critic in the first iteration only, and leave
\* when there is no error
ValidateStep(st, configured, critic) ==
    LET issues == validate_shot_plan(st.plan, st.shot_plan, st.iteration = 0, configured,
                                     critic)
        errors == ErrorsOf(issues.data)
        counted == [st EXCEPT !.validations = @ + 1, !.issues = issues.data,
                              !.critiques = IF CriticRuns(st) THEN Append(@, st.iteration)
                                            ELSE @]
    IN IF issues.exc # "none" THEN [counted EXCEPT !.pc = "raised", !.exc = issues.exc]
       ELSE IF errors = <<>>
       THEN [counted EXCEPT !.pc = "returned", !.errors = <<>>, !.clean = @ + 1]
       ELSE [counted EXCEPT !.pc = "repair", !.errors = errors]

\* lines 352-360 and the step of the for loop: repair, leave when there is no
\* repaired JSON, else parse it and validate again while iterations are left
RepairStep(st, configured, service, shot_plan_id) ==
    LET repaired_json == repair_shot_plan(st.shot_plan, configured, service)
        counted == [st EXCEPT !.before = st.shot_plan,
                              !.repairs = @ + 1,
                              !.requests = @ + repaired_json.requests,
                              !.answers = IF repaired_json.requests = 0 THEN @
                                          ELSE Append(@, service)]
    IN IF repaired_json.exc # "none"
       THEN [counted EXCEPT !.pc = "raised", !.exc = repaired_json.exc]
       ELSE IF repaired_json.data = None THEN [counted EXCEPT !.pc = "returned"]
       ELSE LET parsed == _parse_shot_plan_result(repaired_json.data[1],
                                                  st.shot_plan.project_id,
                                                  Val(Val(st.plan)["plan_id"]),
                                                  Val(Val(st.plan)["version"]),
                                                  shot_plan_id)
            IN IF parsed.exc # "none"
               THEN [counted EXCEPT !.pc = "raised", !.exc = parsed.exc]
               ELSE [counted EXCEPT !.shot_plan = parsed.data[1],
                                    !.iteration = @ + 1,
                                    !.pc = IF st.iteration + 1 < MAX_REPAIR_ITERATIONS
                                           THEN "validate" ELSE "returned"]

\* the call as a function of what the service answers: env.critic to the critic,
\* env.services[i] to the i-th repair, whose result gets the id env.ids[i]
RECURSIVE RunLoop(_, _)
RunLoop(st, env) ==
    IF st.pc = "validate" THEN RunLoop(ValidateStep(st, env.configured, env.critic), env)
    ELSE IF st.pc = "repair"
    THEN RunLoop(RepairStep(st, env.configured, env.services[st.iteration + 1],
                            env.ids[st.iteration + 1]), env)
    ELSE st

_validate_and_repair_shot_plan(plan_asset, shot_plan, env) ==
    RunLoop(LoopStart(plan_asset, shot_plan), env)

(***************************************************************************)
(* Continuity specifications: one _validate_and_repair_shot_plan call      *)
(* (SpecRepair) and one validate_shot_plan call (SpecValidate) on a shot   *)
(* list of at most MaxShots shots for a plan with CHAR_01, LOC_01, SC001   *)
(* and SC002.                                                              *)
(***************************************************************************)
MaxShots == 2

ShotPlanPrefix == <<"s", "h", "o", "t", "p", "l", "a", "n", "_">>

Lock == <<"l", "o", "c", "k">>

RawShot(shot_id, scene_id, shot_index, characters, continuity_lock, time_of_day) ==
    [shot_id |-> shot_id, scene_id |-> scene_id, shot_index_in_scene |-> shot_index,
     duration_s |-> 3, location_id |-> "LOC_01", characters |-> characters,
     shot_type |-> "wide", camera |-> [shot_type |-> "wide"],
     continuity_lock |-> continuity_lock,
     state_in |-> [time_of_day |-> time_of_day],
     state_out |-> [time_of_day |-> time_of_day]]

ShotDay == RawShot("SH001", "SC001", 0, <<"CHAR_01">>, Lock, Some("day"))
ShotNight == RawShot("SH002", "SC001", 1, <<>>, Lock, Some("night"))
ShotOther == RawShot("SH003", "SC002", 0, <<>>, Lock, None)
ShotNoScene == RawShot("SH004", "SC009", 0, <<>>, Lock, None)
ShotNoLock == RawShot("SH001", "SC001", 0, <<"CHAR_01">>, <<" ">>, Some("day"))
\* shot_data without the required keys
ShotNoKeys == [shot_id |-> "SH005", camera |-> [shot_type |-> "wide"]]

RawShots == {ShotDay, ShotNight, ShotOther, ShotNoScene, ShotNoLock}

RepairPlan == PlanDoc(PlanId1, 1, "proj_1", <<CharAlice>>)

\* the shot lists generate_shots can hand to the loop
GivenShotPlans ==
    {_parse_shot_plan_result([shots |-> shots], "proj_1", PlanId1, 1,
                             ShotPlanPrefix \o IntToStr(0)).data[1] :
        shots \in SeqsUpTo(RawShots, MaxShots)}

\* what the service can answer to the critic
CriticAnswers ==
    {[raises |-> TRUE, result |-> EmptyMap],
     [raises |-> FALSE, result |-> EmptyMap],
     [raises |-> FALSE, result |-> [qa_issues |-> DNone]],
     [raises |-> FALSE, result |-> [qa_issues |-> DList(<<[severity |-> "error"]>>)]],
     [raises |-> FALSE,
      result |-> [qa_issues |-> DList(<<[severity |-> "warning", issue_type |-> "pacing",
                                         message |-> "m"]>>)]],
     [raises |-> FALSE,
      result |-> [qa_issues |-> DList(<<[severity |-> "error", issue_type |-> "logic",
                                         message |-> "m"]>>)]]}

\* what the service can answer to a repair
RepairAnswers ==
    {[raises |-> TRUE, result |-> EmptyMap],
     [raises |-> FALSE, result |-> EmptyMap],
     [raises |-> FALSE, result |-> [shots |-> <<ShotDay>>]],
     [raises |-> FALSE, result |-> [shots |-> <<ShotNoScene>>]],
     [raises |-> FALSE, result |-> [shots |-> <<ShotNoKeys>>]]}

\* no request is being served and the store is that of a new project
IdleStore ==
    /\ files = [p \in {"proj_1"} |-> NoFiles]
    /\ index = [p \in {"proj_1"} |-> NoFiles]
    /\ project = [p \in {"proj_1"} |-> NoProject]
    /\ ret = "ok"
    /\ hist = EmptyMap
    /\ last = "none"
    /\ call = NoCall
    /\ writers = NoWriters
    /\ NoPatchCall

InitRepair ==
    /\ IdleStore
    /\ qa = [pc |-> "idle"]
    /\ codec = [pc |-> "idle"]
    /\ checks = [pc |-> "idle"]
    /\ ops = <<>>
    /\ \E shot_plan \in GivenShotPlans : loop = LoopStart(RepairPlan, shot_plan)

\* generate_shots has made the client (line 294) before it calls the loop
Validate ==
    /\ loop.pc = "validate"
    /\ \E critic \in CriticAnswers : loop' = ValidateStep(loop, TRUE, critic)
    /\ UNCHANGED <<repoVars, patchVars, concVars, qa, codec, checks, ops>>

Repair ==
    /\ loop.pc = "repair"
    /\ \E service \in RepairAnswers :
           loop' = RepairStep(loop, TRUE, service, ShotPlanPrefix \o IntToStr(loop.repairs + 1))
    /\ UNCHANGED <<repoVars, patchVars, concVars, qa, codec, checks, ops>>

NextRepair == Validate \/ Repair

SpecRepair == InitRepair /\ [][NextRepair]_vars

\* the loop is one synchronous call: a step that can be taken is taken
SpecRepairFair == SpecRepair /\ WF_vars(NextRepair)

InitValidate ==
    /\ IdleStore
    /\ loop = [pc |-> "idle"]
    /\ codec = [pc |-> "idle"]
    /\ checks = [pc |-> "idle"]
    /\ ops = <<>>
    /\ \E shot_plan \in GivenShotPlans, use_llm_critic \in BOOLEAN, configured \in BOOLEAN,
          critic \in CriticAnswers :
           qa = [pc |-> "called", shot_plan |-> shot_plan, use_llm_critic |-> use_llm_critic,
                 configured |-> configured, critic |-> critic, out |-> Return(<<>>)]

ValidateShotPlanCall ==
    /\ qa.pc = "called"
    /\ qa' = [qa EXCEPT !.pc = "done",
                        !.out = validate_shot_plan(RepairPlan, qa.shot_plan,
                                                   qa.use_llm_critic, qa.configured,
                                                   qa.critic)]
    /\ UNCHANGED <<repoVars, patchVars, concVars, loop, codec, checks, ops>>

NextValidate == ValidateShotPlanCall

SpecValidate == InitValidate /\ [][NextValidate]_vars

(***************************************************************************)
(* Validator specification: one run of the four deterministic validators   *)
(* on a plan and a shot list of at most MaxCheckShots Shot objects.  The   *)
(* shot lists come in four families, each varying the fields one validator *)
(* reads: entity references; scenes and indices; continuity_lock and       *)
(* negative_prompt (None being what an assignment to the attribute can     *)
(* leave, the model not validating assignments); and the states of shots.  *)
(***************************************************************************)
MaxCheckShots == 3

ShotNames == <<"SH001", "SH002", "SH003", "SH004", "SH005">>

\* a Shot with nothing missing and the default states
PlainShot(scene_id, shot_index) == Shot(RawShot("SH001", scene_id, shot_index, <<>>, Lock, None))

EntityShots ==
    {[PlainShot(scene_id, 0) EXCEPT !.location_id = location_id, !.characters = characters] :
        scene_id \in {"SC001", "SC009"}, location_id \in {"LOC_01", "LOC_09"},
        characters \in {<<>>, <<"CHAR_01">>, <<"CHAR_99", "CHAR_01", "CHAR_99">>}}

OrderShots ==
    {PlainShot(scene_id, shot_index) : scene_id \in {"SC001", "SC002"}, shot_index \in -1..2}

FieldShots ==
    {[PlainShot("SC001", 0) EXCEPT !.continuity_lock = continuity_lock,
                                   !.negative_prompt = negative_prompt] :
        continuity_lock \in {<<>>, <<" ">>, <<"\t", "\n">>, Lock, <<" ", "k">>},
        negative_prompt \in {None, Some(""), Some("x")}}

NoState == StateDict(EmptyMap)
TimeStates == {[NoState EXCEPT !.time_of_day = t] : t \in {Some("day"), Some("night"), Some("")}}
OtherStates ==
    {[NoState EXCEPT !.weather = w] : w \in {Some("rain"), Some("sun")}}
    \cup {[NoState EXCEPT !.props_held = props] : props \in {<<"cup">>, <<"cup", "cup">>}}

\* state_in and state_out of a shot: one of them, or none, differs from the default
StatePairs(States) ==
    {<<NoState, NoState>>} \cup {<<st, NoState>> : st \in States}
    \cup {<<NoState, st>> : st \in States}

StateShots ==
    {[PlainShot("SC001", shot_index) EXCEPT !.state_in = pair[1], !.state_out = pair[2]] :
        shot_index \in 0..1, pair \in StatePairs(TimeStates)}
    \cup {[PlainShot("SC002", 0) EXCEPT !.state_in = pair[1], !.state_out = pair[2]] :
            pair \in {<<[NoState EXCEPT !.time_of_day = Some("night")], NoState>>,
                      <<NoState, [NoState EXCEPT !.time_of_day = Some("day")]>>}}

OtherStateShots ==
    {[PlainShot("SC001", 0) EXCEPT !.state_in = pair[1], !.state_out = pair[2]] :
        pair \in StatePairs(OtherStates)}

\* the shots of a list named SH001, SH002, ... in list order
Numbered(shots) == [i \in 1..Len(shots) |-> [shots[i] EXCEPT !.shot_id = ShotNames[i]]]

\* the families of shots a list is drawn from, and whether its shots are then named
\* apart
CheckFamilies ==
    {[shots |-> family, numbered |-> TRUE] :
        family \in {EntityShots, OrderShots, FieldShots, StateShots, OtherStateShots}}
    \cup {[shots |-> OrderShots, numbered |-> FALSE]}

\* a plan without characters, locations or scenes
BarePlan ==
    DDict([Val(RepairPlan) EXCEPT !["characters"] = DList(<<>>),
                                  !["locations"] = DList(<<>>),
                                  !["scenes"] = DList(<<>>)])

CheckShotPlan(shots) ==
    [_parse_shot_plan_result([shots |-> <<>>], "proj_1", PlanId1, 1,
                             ShotPlanPrefix \o IntToStr(1)).data[1] EXCEPT !.shots = shots]

InitChecks ==
    /\ IdleStore
    /\ loop = [pc |-> "idle"]
    /\ qa = [pc |-> "idle"]
    /\ codec = [pc |-> "idle"]
    /\ ops = <<>>
    /\ \E family \in CheckFamilies, n \in 0..MaxCheckShots :
           \E plan_asset \in IF family.shots = EntityShots THEN {RepairPlan, BarePlan}
                              ELSE {RepairPlan},
              shots \in [1..n -> family.shots] :
               checks = [pc |-> "given", plan |-> plan_asset,
                         shot_plan |-> CheckShotPlan(IF family.numbered THEN Numbered(shots)
                                                     ELSE shots),
                         missing |-> <<>>, order |-> <<>>, fields |-> <<>>, state |-> <<>>]

\* validate_shot_plan lines 30-36: the four validators, each on the arguments given
RunValidators ==
    /\ checks.pc = "given"
    /\ checks' = [checks EXCEPT
                     !.pc = "done",
                     !.missing = _validate_missing_entities(checks.plan, checks.shot_plan),
                     !.order = _validate_uniqueness_and_order(checks.shot_plan),
                     !.fields = _validate_required_fields(checks.shot_plan),
                     !.state = _validate_state_continuity(checks.shot_plan)]
    /\ UNCHANGED <<repoVars, patchVars, concVars, loop, qa, codec, ops>>

NextChecks == RunValidators

SpecChecks == InitChecks /\ [][NextChecks]_vars

(***************************************************************************)
(* Codec specification: one build_asset_id call followed by parse_asset_id *)
(* on what it built, or one parse_asset_id call on any string, the         *)
(* strings being of at most MaxLen characters and the versions at most     *)
(* MaxCodecVersion.                                                        *)
(***************************************************************************)
MaxLen == 4
MaxCodecVersion == 11

CodecChars == {"a", "_", "v", "1", "^2"}

InitCodec ==
    /\ IdleStore
    /\ loop = [pc |-> "idle"]
    /\ qa = [pc |-> "idle"]
    /\ checks = [pc |-> "idle"]
    /\ ops = <<>>
    /\ \/ \E stable_id \in SeqsUpTo(CodecChars, MaxLen), version \in 1..MaxCodecVersion :
              codec = [pc |-> "build", stable_id |-> stable_id, version |-> version,
                       asset_id |-> <<>>, out |-> <<<<>>, 0, "none">>]
       \/ \E asset_id \in SeqsUpTo(CodecChars, MaxLen) :
              codec = [pc |-> "parse", stable_id |-> <<>>, version |-> 0,
                       asset_id |-> asset_id, out |-> <<<<>>, 0, "none">>]

BuildAssetId ==
    /\ codec.pc = "build"
    /\ codec' = [codec EXCEPT !.pc = "built",
                              !.asset_id = build_asset_id(codec.stable_id, codec.version)]
    /\ UNCHANGED <<repoVars, patchVars, concVars, loop, qa, checks, ops>>

ParseAssetId ==
    /\ codec.pc \in {"built", "parse"}
    /\ codec' = [codec EXCEPT !.pc = IF codec.pc = "built" THEN "round_trip" ELSE "parsed",
                              !.out = parse_asset_id(codec.asset_id)]
    /\ UNCHANGED <<repoVars, patchVars, concVars, loop, qa, checks, ops>>

NextCodec == BuildAssetId \/ ParseAssetId

SpecCodec == InitCodec /\ [][NextCodec]_vars

(***************************************************************************)
(* pipeline.py and image_pipeline.py: the operations on one project.  An   *)
(* operation is a function of the store, giving the store it leaves and    *)
(* what it raised.  generate_id gives the next unused number after its     *)
(* prefix; of an image the url stands for all that is generated anew.      *)
(***************************************************************************)
MaxAssets == 4

Projects == {"proj_1", "proj_2"}
P1 == "proj_1"

ScriptPrefix == <<"s", "c", "r", "_">>
PlanPrefix == <<"p", "l", "a", "n", "_">>
ImagePrefix == <<"i", "m", "g", "_">>

IdsOf(ix, kind) == UNION {DOMAIN ix[p][kind] : p \in DOMAIN ix}

\* generate_id(prefix): an id no asset of the kind has
generate_id(ix, kind, prefix, n) ==
    prefix \o IntToStr(Cardinality(IdsOf(ix, kind)) + n)

Done(fs, ix, pr) == [files |-> fs, index |-> ix, project |-> pr, ret |-> "ok", partial |-> FALSE]
Failed(fs, ix, pr, exc, partial) ==
    [files |-> fs, index |-> ix, project |-> pr, ret |-> exc, partial |-> partial]

\* pipeline.py / image_pipeline.py _parse_asset_ref.  When it raises, the ValueError
\* leaves the operation as the one of the lookup that follows it in the model does: no
\* asset has the version 0 the result then names.
_parse_asset_ref(asset_ref) == parse_asset_id(asset_ref)

\* if not ref: raise ...; then get_*_asset(project_id, *_parse_asset_ref(ref)): the
\* asset a reference names, None for no reference or no such asset
ActiveAsset(fs, ix, pid, kind, ref) ==
    IF ref = None \/ ref = Some(<<>>) THEN None
    ELSE get_asset(fs, ix, pid, kind, _parse_asset_ref(ref[1])[1],
                   Some(_parse_asset_ref(ref[1])[2]))

\* pipeline.py create_script
create_script(fs, ix, pr, pid, content) ==
    IF pid \notin DOMAIN pr THEN Failed(fs, ix, pr, "ValueError", FALSE)
    ELSE LET script_id == generate_id(ix, "scripts", ScriptPrefix, 1)
             script == [script_id |-> script_id, version |-> 1, content |-> content,
                        parent_script_asset_id |-> None, project_id |-> pid,
                        status |-> "draft"]
         IN Done(create_asset_files(fs, pid, "scripts", script_id, 1, script),
                 create_asset_index(ix, pid, "scripts", script_id, 1),
                 [pr EXCEPT ![pid].active_script_asset_id = Some(build_asset_id(script_id, 1))])

\* pipeline.py update_script
update_script(fs, ix, pr, pid, script_id, content) ==
    LET existing == get_asset(fs, ix, pid, "scripts", script_id, None)
    IN IF existing = None THEN Failed(fs, ix, pr, "ValueError", FALSE)
       ELSE LET new_version == existing[1].version + 1
                script == [script_id |-> script_id, version |-> new_version,
                           content |-> content,
                           parent_script_asset_id |->
                               Some(build_asset_id(script_id, existing[1].version)),
                           project_id |-> pid, status |-> "draft"]
            IN Done(create_asset_files(fs, pid, "scripts", script_id, new_version, script),
                    create_asset_index(ix, pid, "scripts", script_id, new_version),
                    [pr EXCEPT ![pid].active_script_asset_id =
                                   Some(build_asset_id(script_id, new_version))])

\* a failure that comes back with the active pointers cleared
LLMFailure_cleared(fs, ix, pr) ==
    Failed(fs, ix, [p \in DOMAIN pr |-> NoProject], "LLMError", FALSE)

\* generate_plan lines 189-194, generate_shots lines 328-333: generate_json raised;
\* the job is marked failed and the exception raised again
LLMFailure(fs, ix, pr) == Failed(fs, ix, pr, "LLMError", FALSE)

\* pipeline.py generate_plan; llm is what the model call gives
generate_plan(fs, ix, pr, pid, script_asset_id, llm) ==
    IF pid \notin DOMAIN pr THEN Failed(fs, ix, pr, "ValueError", FALSE)
    ELSE LET ref == IF script_asset_id = None THEN pr[pid].active_script_asset_id
                    ELSE script_asset_id
         IN IF ref = None \/ ref = Some(<<>>) THEN Failed(fs, ix, pr, "ValueError", FALSE)
            ELSE LET parsed == _parse_asset_ref(ref[1])
                     script == get_asset(fs, ix, pid, "scripts", parsed[1], Some(parsed[2]))
                 IN IF script = None THEN Failed(fs, ix, pr, "ValueError", FALSE)
                    ELSE IF llm.error THEN LLMFailure(fs, ix, pr)
                    ELSE LET plan_id == generate_id(ix, "plans", PlanPrefix, 1)
                             made == PlanDoc(plan_id, 1, pid, llm.characters)
                         IN Done(create_asset_files(fs, pid, "plans", plan_id, 1, made),
                                 create_asset_index(ix, pid, "plans", plan_id, 1),
                                 [pr EXCEPT ![pid].active_plan_asset_id =
                                                Some(build_asset_id(plan_id, 1))])

\* an update that writes the reference into the active plan pointer
SetActiveShotPlan_plan(pr, pid, ref) == [pr EXCEPT ![pid].active_plan_asset_id = Some(ref)]

\* generate_shots lines 316-317: the project with its active shot plan pointer set
SetActiveShotPlan(pr, pid, ref) == [pr EXCEPT ![pid].active_shot_plan_asset_id = Some(ref)]

\* generate_shots lines 313-317: store the shot plan, point the project at it
StoreShotPlan(fs, ix, pr, pid, shot_plan) ==
    Done(create_asset_files(fs, pid, "shot_plans", shot_plan.shot_plan_id, shot_plan.version,
                            shot_plan),
         create_asset_index(ix, pid, "shot_plans", shot_plan.shot_plan_id, shot_plan.version),
         SetActiveShotPlan(pr, pid, build_asset_id(shot_plan.shot_plan_id, shot_plan.version)))

\* generate_shots lines 311-313: store what the repair loop returned, unless it raised
StoreValidated(fs, ix, pr, pid, done) ==
    IF done.pc = "raised" THEN Failed(fs, ix, pr, done.exc, TRUE)
    ELSE StoreShotPlan(fs, ix, pr, pid, done.shot_plan)

\* generate_shots lines 308-311: the parsed shot list goes through the repair loop
ValidateParsed(fs, ix, pr, pid, plan_asset, first, llm) ==
    IF first.exc # "none" THEN Failed(fs, ix, pr, first.exc, FALSE)
    ELSE StoreValidated(fs, ix, pr, pid,
             _validate_and_repair_shot_plan(
                 plan_asset, first.data[1],
                 [configured |-> TRUE, critic |-> llm.critic, services |-> llm.services,
                  ids |-> [i \in 1..MAX_REPAIR_ITERATIONS |->
                             generate_id(ix, "shot_plans", ShotPlanPrefix, i + 1)]]))

\* pipeline.py generate_shots; llm is what the service gives: whether the first call
\* raised, else its result, and its answers to the critic and to the repairs.  A call
\* that raises out of the repair loop had a shot list in hand (partial).
generate_shots(fs, ix, pr, pid, plan_asset_id, llm) ==
    IF pid \notin DOMAIN pr THEN Failed(fs, ix, pr, "ValueError", FALSE)
    ELSE LET ref == IF plan_asset_id = None THEN pr[pid].active_plan_asset_id
                    ELSE plan_asset_id
             found == ActiveAsset(fs, ix, pid, "plans", ref)
         IN IF found = None THEN Failed(fs, ix, pr, "ValueError", FALSE)
            ELSE IF llm.error THEN LLMFailure(fs, ix, pr)
            ELSE ValidateParsed(fs, ix, pr, pid, found[1],
                     _parse_shot_plan_result(
                         llm.result, pid, Val(Val(found[1])["plan_id"]),
                         Val(Val(found[1])["version"]),
                         generate_id(ix, "shot_plans", ShotPlanPrefix, 1)),
                     llm)

\* patch_plan lines 232-236: the new version made of the patched plan
\* a new version that keeps the backlink of the document patched
NewPlanVersion_kept(patched, plan_id, new_version, parent) ==
    DDict([Val(patched) EXCEPT !["plan_id"] = DRef(plan_id),
                               !["version"] = DInt(new_version)])

NewPlanVersion(patched, plan_id, new_version, parent) ==
    DDict([Val(patched) EXCEPT !["plan_id"] = DRef(plan_id),
                               !["version"] = DInt(new_version),
                               !["parent_plan_asset_id"] = DRef(parent)])

\* a patch_plan that stores the new version before it applies the patches
patch_plan_store_partial(fs, ix, pr, pid, plan_asset_id, patch_list) ==
    LET ref == IF plan_asset_id = None THEN pr[pid].active_plan_asset_id ELSE plan_asset_id
    IN IF ref = None \/ ref = Some(<<>>) THEN Failed(fs, ix, pr, "ValueError", FALSE)
       ELSE LET parsed == _parse_asset_ref(ref[1])
                found == get_asset(fs, ix, pid, "plans", parsed[1], Some(parsed[2]))
            IN IF found = None THEN Failed(fs, ix, pr, "ValueError", FALSE)
               ELSE LET work == PatchLoop(model_dump(found[1]), patch_list, 1)
                        new_version == Val(Val(found[1])["version"]) + 1
                        kept == NewPlanVersion(found[1], parsed[1], new_version, ref[1])
                    IN Failed(create_asset_files(fs, pid, "plans", parsed[1], new_version, kept),
                              create_asset_index(ix, pid, "plans", parsed[1], new_version),
                              pr, IF work.exc = "none" THEN "ok" ELSE work.exc,
                              work.data # found[1])

\* patch_plan lines 231-244: the patched plan becomes the new version, is stored in the
\* directory of its project and made the active plan; partial tells whether the
\* working copy had changed when the call raises
StorePatched(fs, ix, pr, pid, plan_id, plan_version, new_version, patched, partial) ==
    IF patched.exc # "none" THEN Failed(fs, ix, pr, patched.exc, partial)
    ELSE LET stored == NewPlanVersion(patched.data, plan_id, new_version,
                                      build_asset_id(plan_id, plan_version))
             dir == Val(Val(stored)["project_id"])
         IN IF dir \notin DOMAIN fs
            THEN Failed(fs, ix, pr, "FileNotFoundError", partial)
            ELSE Done(create_asset_files(fs, dir, "plans", plan_id, new_version, stored),
                      create_asset_index(ix, dir, "plans", plan_id, new_version),
                      [pr EXCEPT ![pid].active_plan_asset_id =
                                     Some(build_asset_id(plan_id, new_version))])

\* pipeline.py patch_plan
patch_plan(fs, ix, pr, pid, plan_asset_id, patch_list) ==
    IF pid \notin DOMAIN pr THEN Failed(fs, ix, pr, "ValueError", FALSE)
    ELSE
    LET ref == IF plan_asset_id = None THEN pr[pid].active_plan_asset_id ELSE plan_asset_id
    IN IF ref = None \/ ref = Some(<<>>) THEN Failed(fs, ix, pr, "ValueError", FALSE)
       ELSE LET parsed == _parse_asset_ref(ref[1])
                plan_id == parsed[1]
                plan_version == parsed[2]
                found == get_asset(fs, ix, pid, "plans", plan_id, Some(plan_version))
            IN IF found = None THEN Failed(fs, ix, pr, "ValueError", FALSE)
               ELSE StorePatched(fs, ix, pr, pid, plan_id, plan_version,
                                 Val(Val(found[1])["version"]) + 1,
                                 apply_patches(found[1], patch_list),
                                 PatchLoop(model_dump(found[1]), patch_list, 1).data
                                     # found[1])

\* image_pipeline.py: the ImageAsset of _generate_style_frame and
\* _generate_character_references
NewImage(image_id, asset_type, pid, plan_id, url) ==
    [image_id |-> image_id, version |-> 1, asset_type |-> asset_type,
     project_id |-> pid, plan_id |-> plan_id, shot_id |-> None, image_url |-> url,
     status |-> "draft", parent_image_asset_id |-> None]

\* _generate_style_frame
_generate_style_frame(fs, ix, pid, found, url) ==
    LET image_id == generate_id(ix, "images", ImagePrefix, 1)
        image == NewImage(image_id, "style_frame", pid, Val(Val(found)["plan_id"]), url)
    IN [files |-> create_asset_files(fs, pid, "images", image_id, 1, image),
        index |-> create_asset_index(ix, pid, "images", image_id, 1)]

\* _generate_character_references: one image for each character, from the i-th on
RECURSIVE _generate_character_references(_, _, _, _, _, _)
_generate_character_references(fs, ix, pid, found, url, i) ==
    IF i > Len(Val(Val(found)["characters"])) THEN [files |-> fs, index |-> ix]
    ELSE LET image_id == generate_id(ix, "images", ImagePrefix, 1)
             image == NewImage(image_id, "character_reference", pid,
                               Val(Val(found)["plan_id"]), url)
         IN _generate_character_references(
                create_asset_files(fs, pid, "images", image_id, 1, image),
                create_asset_index(ix, pid, "images", image_id, 1),
                pid, found, url, i + 1)

\* _generate_location_references: one image for each location, from the i-th on
RECURSIVE _generate_location_references(_, _, _, _, _, _)
_generate_location_references(fs, ix, pid, found, url, i) ==
    IF i > Len(Val(Val(found)["locations"])) THEN [files |-> fs, index |-> ix]
    ELSE LET image_id == generate_id(ix, "images", ImagePrefix, 1)
             image == NewImage(image_id, "location_reference", pid,
                               Val(Val(found)["plan_id"]), url)
         IN _generate_location_references(
                create_asset_files(fs, pid, "images", image_id, 1, image),
                create_asset_index(ix, pid, "images", image_id, 1),
                pid, found, url, i + 1)

\* _generate_shot_frame: the image of one shot
_generate_shot_frame(fs, ix, pid, found, shot, url) ==
    LET image_id == generate_id(ix, "images", ImagePrefix, 1)
        image == [NewImage(image_id, "shot_frame", pid, Val(Val(found)["plan_id"]), url)
                     EXCEPT !.shot_id = Some(shot.shot_id)]
    IN [files |-> create_asset_files(fs, pid, "images", image_id, 1, image),
        index |-> create_asset_index(ix, pid, "images", image_id, 1)]

\* for shot in shots: _generate_shot_frame(...), from the i-th shot on: the loop of
\* _generate_shot_frames and of the scene scope
RECURSIVE _generate_shot_frames(_, _, _, _, _, _, _)
_generate_shot_frames(fs, ix, pid, found, shots, url, i) ==
    IF i > Len(shots) THEN [files |-> fs, index |-> ix]
    ELSE LET a == _generate_shot_frame(fs, ix, pid, found, shots[i], url)
         IN _generate_shot_frames(a.files, a.index, pid, found, shots, url, i + 1)

\* a scene filter that lets every shot through
SceneShots_all(shots, scene_id) == shots

\* generate_images line 81: the shots of the scene, in the order of the shot plan
SceneShots(shots, scene_id) ==
    SelectSeq(shots, LAMBDA shot : Some(shot.scene_id) = scene_id)

\* schemas.py RegenScope
RegenScope(scope_type, scene_id, shot_id, asset_type) ==
    [scope_type |-> scope_type, scene_id |-> scene_id, shot_id |-> shot_id,
     asset_type |-> asset_type]

Scopes == {RegenScope("project", None, None, "none"),
           RegenScope("scene", Some("SC001"), None, "none"),
           RegenScope("shot", None, Some("SH001"), "none"),
           RegenScope("asset", None, None, "style_frame"),
           RegenScope("asset", None, None, "character_reference"),
           RegenScope("asset", None, None, "location_reference")}

\* image_pipeline.py generate_images
generate_images(fs, ix, pr, pid, scope, url) ==
    IF pid \notin DOMAIN pr THEN Failed(fs, ix, pr, "ValueError", FALSE)
    ELSE
    LET found == ActiveAsset(fs, ix, pid, "plans", pr[pid].active_plan_asset_id)
        shot_plan == ActiveAsset(fs, ix, pid, "shot_plans", pr[pid].active_shot_plan_asset_id)
    IN IF found = None THEN Failed(fs, ix, pr, "ValueError", FALSE)
       ELSE CASE scope.scope_type = "project" ->
                   LET a == _generate_style_frame(fs, ix, pid, found[1], url)
                       b == _generate_character_references(a.files, a.index, pid,
                                                           found[1], url, 1)
                       c == _generate_location_references(b.files, b.index, pid,
                                                          found[1], url, 1)
                       d == IF shot_plan = None THEN c
                            ELSE _generate_shot_frames(c.files, c.index, pid, found[1],
                                                       shot_plan[1].shots, url, 1)
                   IN Done(d.files, d.index, pr)
              [] scope.scope_type = "scene" ->
                   IF shot_plan = None THEN Failed(fs, ix, pr, "ValueError", FALSE)
                   ELSE LET scene_shots == SceneShots(shot_plan[1].shots, scope.scene_id)
                            a == _generate_shot_frames(fs, ix, pid, found[1], scene_shots,
                                                       url, 1)
                        IN Done(a.files, a.index, pr)
              [] scope.scope_type = "shot" ->
                   IF shot_plan = None THEN Failed(fs, ix, pr, "ValueError", FALSE)
                   ELSE LET matching ==
                                SelectSeq(shot_plan[1].shots,
                                          LAMBDA shot : Some(shot.shot_id) = scope.shot_id)
                        IN IF matching = <<>> THEN Failed(fs, ix, pr, "ValueError", FALSE)
                           ELSE LET a == _generate_shot_frame(fs, ix, pid, found[1],
                                                              matching[1], url)
                                IN Done(a.files, a.index, pr)
              [] scope.scope_type = "asset" /\ scope.asset_type = "style_frame" ->
                   LET a == _generate_style_frame(fs, ix, pid, found[1], url)
                   IN Done(a.files, a.index, pr)
              [] scope.scope_type = "asset" /\ scope.asset_type = "character_reference" ->
                   LET b == _generate_character_references(fs, ix, pid, found[1], url, 1)
                   IN Done(b.files, b.index, pr)
              [] scope.scope_type = "asset" /\ scope.asset_type = "location_reference" ->
                   LET c == _generate_location_references(fs, ix, pid, found[1], url, 1)
                   IN Done(c.files, c.index, pr)
              [] OTHER -> Done(fs, ix, pr)

\* image_pipeline.py accept_image
accept_image(fs, ix, pr, pid, image_asset_id) ==
    LET parsed == _parse_asset_ref(image_asset_id)
        image == get_asset(fs, ix, pid, "images", parsed[1], Some(parsed[2]))
    IN IF image = None THEN Failed(fs, ix, pr, "ValueError", FALSE)
       ELSE LET accepted == [image[1] EXCEPT !.status = "accepted"]
            IN Done(create_asset_files(fs, accepted.project_id, "images",
                                       accepted.image_id, accepted.version, accepted),
                    create_asset_index(ix, accepted.project_id, "images",
                                       accepted.image_id, accepted.version),
                    pr)

\* edit_image lines 306-330 and regenerate_image lines 362-385: the new version
NextImageVersion(fs, ix, pr, pid, image_asset_id, parent_image, url) ==
    LET parsed == _parse_asset_ref(image_asset_id)
        new_image == [image_id |-> parsed[1], version |-> parsed[2] + 1,
                      asset_type |-> parent_image.asset_type, project_id |-> pid,
                      plan_id |-> parent_image.plan_id,
                      shot_id |-> parent_image.shot_id, image_url |-> url,
                      status |-> "draft",
                      parent_image_asset_id |-> Some(image_asset_id)]
    IN Done(create_asset_files(fs, pid, "images", parsed[1], parsed[2] + 1, new_image),
            create_asset_index(ix, pid, "images", parsed[1], parsed[2] + 1),
            pr)

\* image_pipeline.py edit_image; llm is "ok" or "error"
edit_image(fs, ix, pr, pid, image_asset_id, llm, url) ==
    LET parsed == _parse_asset_ref(image_asset_id)
        parent_image == get_asset(fs, ix, pid, "images", parsed[1], Some(parsed[2]))
    IN IF parent_image = None THEN Failed(fs, ix, pr, "ValueError", FALSE)
       ELSE IF llm = "error" THEN Failed(fs, ix, pr, "LLMError", FALSE)
       ELSE NextImageVersion(fs, ix, pr, pid, image_asset_id, parent_image[1], url)

\* image_pipeline.py regenerate_image
regenerate_image(fs, ix, pr, pid, image_asset_id, url) ==
    LET parsed == _parse_asset_ref(image_asset_id)
        parent_image == get_asset(fs, ix, pid, "images", parsed[1], Some(parsed[2]))
    IN IF parent_image = None THEN Failed(fs, ix, pr, "ValueError", FALSE)
       ELSE NextImageVersion(fs, ix, pr, pid, image_asset_id, parent_image[1], url)

(***************************************************************************)
(* Pipeline specification: any sequence of the operations on project       *)
(* proj_1, another project proj_2 being there, while the store holds at    *)
(* most MaxAssets files.                                                   *)
(***************************************************************************)
Contents == {"INT. ROOM"}
Urls == {"u1", "u2"}
\* what the model call gives: an error, or the characters of the plan it extracted
LLMPlans == {[error |-> TRUE, characters |-> <<>>],
             [error |-> FALSE, characters |-> <<CharAlice>>]}

\* what the service gives to generate_shots: an error, a shot list without issues,
\* one with an error-severity issue, or shots without the required keys
ShotAnswer(error, shots, service) ==
    [error |-> error, result |-> [shots |-> shots],
     critic |-> [raises |-> TRUE, result |-> EmptyMap],
     services |-> [i \in 1..MAX_REPAIR_ITERATIONS |-> service]]

ShotAnswers ==
    {ShotAnswer(TRUE, <<>>, [raises |-> TRUE, result |-> EmptyMap]),
     ShotAnswer(FALSE, <<ShotDay, ShotOther>>, [raises |-> TRUE, result |-> EmptyMap]),
     ShotAnswer(FALSE, <<ShotNoScene>>, [raises |-> FALSE, result |-> [shots |-> <<ShotDay>>]]),
     ShotAnswer(FALSE, <<ShotNoKeys>>, [raises |-> TRUE, result |-> EmptyMap])}

RECURSIVE SumOver(_, _)
SumOver(f, S) ==
    IF S = {} THEN 0
    ELSE LET x == CHOOSE x \in S : TRUE IN f[x] + SumOver(f, S \ {x})

\* the number of asset files in the store
TotalFiles(fs) ==
    SumOver([pk \in (DOMAIN fs) \X Kinds |-> Cardinality(DOMAIN fs[pk[1]][pk[2]])],
            (DOMAIN fs) \X Kinds)

UnknownRef == <<"n", "o", "n", "e">>

\* the references a caller can name: stored files, bare stable ids, one of nothing
RefsOf(kind) == DOMAIN files[P1][kind] \cup DOMAIN index[P1][kind] \cup {UnknownRef}

PipePatchLists == {
    <<>>,
    <<Patch(<<"project_bible", ".", "title">>, "replace", DStr("X"))>>,
    <<Patch(<<"project_bible", ".", "title">>, "replace", DStr("X")),
      Patch(<<"characters", "[", "CHAR_99", "]", ".", "name">>, "replace", DStr("X"))>>,
    <<Patch(<<"project_bible", ".", "title">>, "replace", CharBob)>>,
    <<Patch(<<"project_id">>, "replace", DStr("proj_2"))>>,
    <<Patch(<<"project_id">>, "replace", DStr("proj_9"))>>}

Init ==
    /\ files = [p \in Projects |-> NoFiles]
    /\ index = [p \in Projects |-> NoFiles]
    /\ project = [p \in Projects |-> NoProject]
    /\ ret = "ok"
    /\ hist = EmptyMap
    /\ last = "none"
    /\ call = NoCall
    /\ writers = NoWriters
    /\ NoCalls
    /\ NoPatchCall

\* the step of one call: what the operation leaves
Calls(op, r) ==
    /\ TotalFiles(r.files) <= MaxAssets
    /\ files' = r.files
    /\ index' = r.index
    /\ project' = r.project
    /\ ret' = r.ret
    /\ call' = [op |-> op, partial |-> r.partial]
    /\ UNCHANGED <<hist, last, patchVars, concVars, callVars>>

CreateScript ==
    \E content \in Contents :
        Calls("create_script", create_script(files, index, project, P1, content))

UpdateScript ==
    \E script_id \in RefsOf("scripts"), content \in Contents :
        Calls("update_script", update_script(files, index, project, P1, script_id, content))

GeneratePlan ==
    \E llm \in LLMPlans :
        Calls("generate_plan", generate_plan(files, index, project, P1, None, llm))

GenerateShots ==
    \E llm \in ShotAnswers :
        Calls("generate_shots", generate_shots(files, index, project, P1, None, llm))

\* continuity.py validate_shot_plan on the active plan and shot plan: it reads its
\* arguments and the service only
ValidateShotPlan ==
    \E use_llm_critic \in BOOLEAN, critic \in CriticAnswers :
        LET found == ActiveAsset(files, index, P1, "plans", project[P1].active_plan_asset_id)
            shot_plan == ActiveAsset(files, index, P1, "shot_plans",
                                     project[P1].active_shot_plan_asset_id)
        IN /\ found # None /\ shot_plan # None
           /\ LET issues == validate_shot_plan(found[1], shot_plan[1], use_llm_critic,
                                               TRUE, critic)
              IN Calls("validate_shot_plan",
                       IF issues.exc = "none" THEN Done(files, index, project)
                       ELSE Failed(files, index, project, issues.exc, FALSE))

PatchPlan ==
    \E ref \in {None} \cup {Some(x) : x \in RefsOf("plans")}, patch_list \in PipePatchLists :
        Calls("patch_plan", patch_plan(files, index, project, P1, ref, patch_list))

GenerateImages ==
    \E scope \in Scopes, url \in Urls :
        Calls("generate_images", generate_images(files, index, project, P1, scope, url))

AcceptImage ==
    \E ref \in RefsOf("images") :
        Calls("accept_image", accept_image(files, index, project, P1, ref))

EditImage ==
    \E ref \in RefsOf("images"), llm \in {"ok", "error"}, url \in Urls :
        Calls("edit_image", edit_image(files, index, project, P1, ref, llm, url))

RegenerateImage ==
    \E ref \in RefsOf("images"), url \in Urls :
        Calls("regenerate_image", regenerate_image(files, index, project, P1, ref, url))

Next ==
    \/ CreateScript
    \/ UpdateScript
    \/ GeneratePlan
    \/ GenerateShots
    \/ ValidateShotPlan
    \/ PatchPlan
    \/ GenerateImages
    \/ AcceptImage
    \/ EditImage
    \/ RegenerateImage

Spec == Init /\ [][Next]_vars

(***************************************************************************)
(* Concurrent writers: two create_*_asset calls on one stable id, each     *)
(* with its own version, run by the threads that serve the requests.       *)
(* storage.py takes no lock: a call saves its file, reads _index.json,     *)
(* adds its version to what it read and writes the file back.              *)
(***************************************************************************)
Writers == {1, 2}

WriterAsset(version) ==
    [project_id |-> P1, stable_id |-> <<"a">>, version |-> version, body |-> "x"]

InitConc ==
    /\ files = [p \in {P1} |-> NoFiles]
    /\ index = [p \in {P1} |-> NoFiles]
    /\ project = [p \in {P1} |-> NoProject]
    /\ ret = "ok"
    /\ hist = EmptyMap
    /\ last = "none"
    /\ call = NoCall
    /\ NoPatchCall
    /\ NoCalls
    /\ \E kind \in Kinds :
       \E v \in {f \in [Writers -> 1..(MaxVersion + 1)] : f[1] < f[2]} :
           writers = [w \in Writers |->
                         [pc |-> "save", kind |-> kind, asset |-> WriterAsset(v[w]),
                          idx |-> EmptyMap]]

WriterStep(w, pc, idx) ==
    writers' = [writers EXCEPT ![w].pc = pc, ![w].idx = idx]

\* create_*_asset: _save_json(path, asset.model_dump())
SaveFile(w) ==
    /\ writers[w].pc = "save"
    /\ LET a == writers[w].asset
       IN files' = create_asset_files(files, a.project_id, writers[w].kind,
                                      a.stable_id, a.version, a)
    /\ WriterStep(w, "read", writers[w].idx)
    /\ UNCHANGED <<index, project, ret, hist, last, call, patchVars, callVars>>

\* _update_asset_index lines 373-377: index = _load_json(index_path), or {}
ReadIndex(w) ==
    /\ writers[w].pc = "read"
    /\ WriterStep(w, "append", index[writers[w].asset.project_id][writers[w].kind])
    /\ UNCHANGED <<files, index, project, ret, hist, last, call, patchVars, callVars>>

\* _update_asset_index lines 379-384: add the version to the index in memory
AppendVersion(w) ==
    /\ writers[w].pc = "append"
    /\ WriterStep(w, "write",
                  _update_asset_index(writers[w].idx, writers[w].asset.stable_id,
                                      writers[w].asset.version))
    /\ UNCHANGED <<files, index, project, ret, hist, last, call, patchVars, callVars>>

\* _update_asset_index line 386: _save_json(index_path, index)
WriteIndex(w) ==
    /\ writers[w].pc = "write"
    /\ index' = [index EXCEPT ![writers[w].asset.project_id][writers[w].kind] =
                                  writers[w].idx]
    /\ WriterStep(w, "done", writers[w].idx)
    /\ UNCHANGED <<files, project, ret, hist, last, call, patchVars, callVars>>

NextConc ==
    \E w \in Writers :
        \/ SaveFile(w)
        \/ ReadIndex(w)
        \/ AppendVersion(w)
        \/ WriteIndex(w)

SpecConc == InitConc /\ [][NextConc]_vars

\* the stable ids of the two assets when the writers store different ones
WriterIds == <<(<<"a">>), (<<"b">>)>>

\* two create_*_asset calls on one directory, each on a stable id of its own
InitTwoIds ==
    /\ files = [p \in {P1} |-> NoFiles]
    /\ index = [p \in {P1} |-> NoFiles]
    /\ project = [p \in {P1} |-> NoProject]
    /\ ret = "ok"
    /\ hist = EmptyMap
    /\ last = "none"
    /\ call = NoCall
    /\ NoPatchCall
    /\ NoCalls
    /\ \E kind \in Kinds, v \in [Writers -> 1..MaxVersion] :
           writers = [w \in Writers |->
                         [pc |-> "save", kind |-> kind,
                          asset |-> [WriterAsset(v[w]) EXCEPT !.stable_id = WriterIds[w]],
                          idx |-> EmptyMap]]

SpecTwoIds == InitTwoIds /\ [][NextConc]_vars

(***************************************************************************)
(* Concurrent operations: two pipeline calls on one project, each setting  *)
(* an active pointer of its own, run by the threads that serve the         *)
(* requests.  A call reads project.json into a Project object (pc start ->  *)
(* read), does its work on the assets with the object it holds (read ->    *)
(* stored, or failed when it raises), sets its pointer in the object and   *)
(* writes the whole object back (stored -> done).  No lock is taken.       *)
(***************************************************************************)
Operations == {1, 2}

PointerOps == {"create_script", "generate_plan", "generate_shots"}

\* the pointer an operation sets
OpField(op) ==
    CASE op = "create_script" -> "active_script_asset_id"
      [] op = "generate_plan" -> "active_plan_asset_id"
      [] op = "generate_shots" -> "active_shot_plan_asset_id"

\* the stores the calls start from: a project with a script, and one with a plan too
ScriptStore ==
    create_script([p \in Projects |-> NoFiles], [p \in Projects |-> NoFiles],
                  [p \in Projects |-> NoProject], P1, "INT. ROOM")

PlanStore ==
    generate_plan(ScriptStore.files, ScriptStore.index, ScriptStore.project, P1, None,
                  [error |-> FALSE, characters |-> <<CharAlice>>])

InitOps ==
    /\ ret = "ok"
    /\ hist = EmptyMap
    /\ last = "none"
    /\ call = NoCall
    /\ writers = NoWriters
    /\ NoPatchCall
    /\ loop = [pc |-> "idle"]
    /\ qa = [pc |-> "idle"]
    /\ codec = [pc |-> "idle"]
    /\ checks = [pc |-> "idle"]
    /\ \E store \in {ScriptStore, PlanStore} :
           /\ files = store.files
           /\ index = store.index
           /\ project = store.project
    /\ \E kinds \in {f \in [Operations -> PointerOps] : f[1] # f[2]} :
           ops = [o \in Operations |->
                     [op |-> kinds[o], pc |-> "start", proj |-> NoProject, pointer |-> None]]

\* repository.get_project(project_id): create_script line 52, generate_plan line 137,
\* generate_shots line 276
ReadProject(o) ==
    /\ ops[o].pc = "start"
    /\ ops' = [ops EXCEPT ![o].pc = "read", ![o].proj = project[P1]]
    /\ UNCHANGED <<repoVars, patchVars, concVars, loop, qa, codec, checks>>

\* the project record as the operation holds it
Held(o) == [project EXCEPT ![P1] = ops[o].proj]

\* what the rest of the call leaves on the assets, r the call computed on the Project
\* object held: the assets stored and the pointer set in the object, or the failure
Worked(o, r) ==
    /\ files' = r.files
    /\ index' = r.index
    /\ ops' = IF r.ret = "ok"
              THEN [ops EXCEPT ![o].pc = "stored",
                               ![o].pointer = r.project[P1][OpField(ops[o].op)]]
              ELSE [ops EXCEPT ![o].pc = "failed"]
    /\ UNCHANGED <<project, ret, hist, last, call, patchVars, concVars, loop, qa, codec,
                   checks>>

\* create_script lines 56-67
WorkCreateScript(o) ==
    /\ ops[o].pc = "read" /\ ops[o].op = "create_script"
    /\ \E content \in Contents : Worked(o, create_script(files, index, Held(o), P1, content))

\* generate_plan lines 141-177
WorkGeneratePlan(o) ==
    /\ ops[o].pc = "read" /\ ops[o].op = "generate_plan"
    /\ \E llm \in LLMPlans : Worked(o, generate_plan(files, index, Held(o), P1, None, llm))

\* generate_shots lines 280-316
WorkGenerateShots(o) ==
    /\ ops[o].pc = "read" /\ ops[o].op = "generate_shots"
    /\ \E llm \in ShotAnswers : Worked(o, generate_shots(files, index, Held(o), P1, None, llm))

\* repository.update_project(project), storage.py lines 59-63: project.json is
\* written from the object held
update_project(pr, held, field, pointer) ==
    [pr EXCEPT ![P1] = [held EXCEPT ![field] = pointer]]

WriteProject(o) ==
    /\ ops[o].pc = "stored"
    /\ project' = update_project(project, ops[o].proj, OpField(ops[o].op), ops[o].pointer)
    /\ ops' = [ops EXCEPT ![o].pc = "done"]
    /\ UNCHANGED <<files, index, ret, hist, last, call, patchVars, concVars, loop, qa, codec,
                   checks>>

NextOps ==
    \E o \in Operations :
        \/ ReadProject(o)
        \/ WorkCreateScript(o)
        \/ WorkGeneratePlan(o)
        \/ WorkGenerateShots(o)
        \/ WriteProject(o)

SpecOps == InitOps /\ [][NextOps]_vars

\* C5: when two concurrent creates of different versions of one stable id have both
\* returned, the index of the stable id lists both versions and its latest is the
\* higher of the two, whatever the interleaving of their steps.
C5_NoLostIndexUpdate ==
    (\A w \in Writers : writers[w].pc = "done") =>
        LET kind == writers[1].kind
            entry == index[P1][kind][<<"a">>]
            listed == {entry.versions[i] : i \in 1..Len(entry.versions)}
            stored == {writers[w].asset.version : w \in Writers}
        IN /\ stored \subseteq listed
           /\ entry.latest = Max(stored)

(***************************************************************************)
(* Claims about the patch engine (SpecPatch).                              *)
(***************************************************************************)
Called == out.exc # "idle"
Returned == out.exc = "none"
Result == objs[out.ref[1]]

\* C6: apply_patches leaves the PlanAsset it was given exactly as it was, whether it
\* returns or raises, and what it returns is another object than the one given.
C6_InputNotMutated ==
    Called => /\ objs[plan] = given
              /\ Returned => (out.ref # None /\ out.ref[1] # plan)

\* the call raised after an earlier patch of the list had changed the working copy
C6_Witness ==
    /\ Called /\ ~Returned
    /\ Len(objs) = 2
    /\ objs[2] # given

SupportedOps == {"replace", "add", "remove"}

\* the path starts with an identity lookup list_key[token] and no element of
\* doc[list_key] has the token as its identity
UnknownIdLookup(doc, path) ==
    LET parsed == _parse_path(path)
    IN /\ parsed.exc = "none"
       /\ parsed.parts # <<>>
       /\ parsed.parts[1].t = "id"
       /\ LET part == parsed.parts[1]
              f == FindItem(GetItems(doc, part.list_key),
                            _get_id_field_for_list(part.list_key), part.item_id)
          IN f.exc = "none" /\ f.pos = 0

\* C8: a patch whose path holds an identity lookup name[token] that matches no
\* element of the collection fails with the target-not-found error (a ValueError),
\* whatever its supported op and whether the lookup is the last segment or not.
C8_UnknownIdRejected ==
    (/\ Called
     /\ Len(patches) >= 1
     /\ DOMAIN patches[1] = {"path", "op", "value"}
     /\ patches[1].op \in SupportedOps
     /\ UnknownIdLookup(given, patches[1].path))
    => out.exc = "ValueError"

\* C9: a patch list holding an op other than replace, add and remove is rejected
\* with an error, whatever the path; it is never taken as a patch that does nothing.
C9_UnsupportedOpRejected ==
    (/\ Called
     /\ \E i \in 1..Len(patches) : PatchGet(patches[i], "op", "replace") \notin SupportedOps)
    => ~Returned

\* the patches of ps taken one after the other, each on what the ones before left
RECURSIVE InOrder(_, _)
InOrder(d, ps) ==
    IF ps = <<>> THEN Return(d)
    ELSE LET sofar == InOrder(d, SubSeq(ps, 1, Len(ps) - 1))
             p == ps[Len(ps)]
         IN IF sofar.exc # "none" THEN sofar
            ELSE _apply_single_patch(sofar.data, PatchGet(p, "path", <<>>),
                                     PatchGet(p, "op", "replace"),
                                     PatchGet(p, "value", DNone))

TitlePath == <<"project_bible", ".", "title">>
IsTitleReplace(p) ==
    /\ PatchGet(p, "path", <<>>) = TitlePath
    /\ PatchGet(p, "op", "replace") = "replace"
TitleOf(d) == Val(Val(d)["project_bible"])["title"]

\* C10: the patches are applied in list order, each on the document the earlier ones
\* left: the call gives what applying the first, then the second to that, and so on
\* gives, and of two replaces of one path the later value stays.
C10_AppliedInListOrder ==
    Called =>
      /\ LET r == InOrder(given, patches)
             made == PlanAssetFromDict(r.data)
         IN IF r.exc # "none" THEN out.exc = r.exc
            ELSE IF made.exc # "none" THEN out.exc = made.exc
            ELSE Returned /\ Result = made.data
      /\ (/\ Returned /\ Len(patches) = 2
          /\ IsTitleReplace(patches[1]) /\ IsTitleReplace(patches[2]))
         => TitleOf(Result) = PatchGet(patches[2], "value", DNone)

\* two replaces of the title with different values went through, the later value stayed
C10_Witness ==
    /\ Returned
    /\ Len(patches) = 2
    /\ IsTitleReplace(patches[1]) /\ IsTitleReplace(patches[2])
    /\ PatchGet(patches[1], "value", DNone) = DStr("X")
    /\ PatchGet(patches[2], "value", DNone) = DStr("Y")
    /\ TitleOf(Result) = DStr("Y")

(***************************************************************************)
(* Image specification: generate_images calls on a project whose active    *)
(* plan has CHAR_01, LOC_01, SC001 and SC002 and whose active shot plan,   *)
(* if it has one, holds at most MaxPlanShots shots, SH001 and SH002 of     *)
(* SC001 and SH003 of SC002 in any order and number, stored through the    *)
(* repository as tests/test_regen_scope.py does; at most MaxImages image   *)
(* files.  The prompt service answers every prompt.                        *)
(***************************************************************************)
MaxPlanShots == 3
MaxImages == 2

ShotPlanId1 == ShotPlanPrefix \o IntToStr(1)

ImageShotPlans ==
    {_parse_shot_plan_result([shots |-> shots], P1, PlanId1, 1, ShotPlanId1).data[1] :
        shots \in SeqsUpTo({ShotDay, ShotNight, ShotOther}, MaxPlanShots)}

ImageScopes ==
    {RegenScope("project", None, None, "none"),
     RegenScope("asset", None, None, "none")}
    \cup {RegenScope("scene", Some(scene_id), None, "none") : scene_id \in {"SC001", "SC002", "SC009"}}
    \cup {RegenScope("shot", None, Some(shot_id), "none") : shot_id \in {"SH001", "SH002", "SH003", "SH009"}}
    \cup {RegenScope("asset", None, None, asset_type) :
            asset_type \in {"style_frame", "character_reference", "location_reference",
                            "shot_frame"}}

\* the store after create_plan_asset and update_project
WithPlan(fs, ix, pr) ==
    [files |-> create_asset_files(fs, P1, "plans", PlanId1, 1, RepairPlan),
     index |-> create_asset_index(ix, P1, "plans", PlanId1, 1),
     project |-> [pr EXCEPT ![P1].active_plan_asset_id = Some(build_asset_id(PlanId1, 1))]]

\* the store after create_shot_plan_asset and update_project
WithShotPlan(st, shot_plan) ==
    [files |-> create_asset_files(st.files, P1, "shot_plans", ShotPlanId1, 1, shot_plan),
     index |-> create_asset_index(st.index, P1, "shot_plans", ShotPlanId1, 1),
     project |-> SetActiveShotPlan(st.project, P1, build_asset_id(ShotPlanId1, 1))]

InitImages ==
    /\ \E st \in {WithPlan([p \in Projects |-> NoFiles], [p \in Projects |-> NoFiles],
                           [p \in Projects |-> NoProject])} :
         \E stored \in {st} \cup {WithShotPlan(st, shot_plan) : shot_plan \in ImageShotPlans} :
            /\ files = stored.files
            /\ index = stored.index
            /\ project = stored.project
    /\ ret = "ok"
    /\ hist = EmptyMap
    /\ last = "none"
    /\ call = NoCall
    /\ writers = NoWriters
    /\ NoCalls
    /\ NoPatchCall

\* one generate_images call; the call is kept with its scope
GenerateImagesCall ==
    \E scope \in ImageScopes :
        \E r \in {generate_images(files, index, project, P1, scope, "u1")} :
            /\ Cardinality(DOMAIN r.files[P1]["images"]) <= MaxImages
            /\ files' = r.files
            /\ index' = r.index
            /\ project' = r.project
            /\ ret' = r.ret
            /\ call' = [op |-> "generate_images", partial |-> r.partial, scope |-> scope]
            /\ UNCHANGED <<hist, last, patchVars, concVars, callVars>>

NextImages == GenerateImagesCall

SpecImages == InitImages /\ [][NextImages]_vars

(***************************************************************************)
(* Claims about the repair loop (SpecRepair) and validate_shot_plan        *)
(* (SpecValidate).                                                         *)
(***************************************************************************)
Finished == loop.pc \in {"returned", "raised"}

NoErrorIn(issues) == \A i \in 1..Len(issues) : issues[i].severity # "error"

\* C11: when the validation of the shot list the loop was given yields no issue of
\* severity error, the loop has returned that shot list as it was, having made no
\* repair call and no request to the service for one.
C11_NoErrorsNoRepair ==
    (loop.pc # "idle" /\ loop.iteration = 0 /\ loop.validations = 1 /\ loop.exc = "none"
        /\ NoErrorIn(loop.issues))
    => /\ loop.pc = "returned"
       /\ loop.repairs = 0 /\ loop.requests = 0
       /\ loop.shot_plan = loop.given

C11_Witness ==
    /\ loop.pc = "returned" /\ loop.validations = 1 /\ loop.repairs = 0
    /\ \E i \in 1..Len(loop.issues) : loop.issues[i].severity = "warning"
    /\ NoErrorIn(loop.issues)
    /\ loop.shot_plan = loop.given

\* the service gave a document that parses into a shot list
Parseable(answer) ==
    /\ ~answer.raises
    /\ \A i \in 1..Len(FieldOr(answer.result, "shots", <<>>)) :
           ShotDataExc(FieldOr(answer.result, "shots", <<>>)[i]) = "none"

\* the shot list the document parses into has an error the validators find
StillBroken(plan_asset, answer) ==
    ~NoErrorIn(DeterministicIssues(plan_asset,
                   _parse_shot_plan_result(answer.result, "proj_1", PlanId1, 1,
                                           ShotPlanPrefix).data[1]))

\* C12: when every validation found an error and every answer of the service to a
\* repair was a document that parses into a shot list with errors, the finished loop
\* has returned, without raising, after exactly MAX_REPAIR_ITERATIONS repair calls, a
\* shot list that still has errors.
C12_PersistentErrorsBounded ==
    (Finished /\ loop.validations >= 1 /\ loop.clean = 0
        /\ \A i \in 1..Len(loop.answers) :
               Parseable(loop.answers[i]) /\ StillBroken(loop.plan, loop.answers[i]))
    => /\ loop.pc = "returned" /\ loop.exc = "none"
       /\ loop.repairs = MAX_REPAIR_ITERATIONS /\ loop.requests = MAX_REPAIR_ITERATIONS
       /\ ~NoErrorIn(DeterministicIssues(loop.plan, loop.shot_plan))

\* C13: the loop does not raise once it repairs, and a repair for which the service
\* failed or gave a document that does not parse ends the loop, which returns the shot
\* list as that repair found it.
C13_FailedRepairReturnsPreRepair ==
    loop.pc # "idle" /\ loop.repairs >= 1 =>
        /\ loop.pc # "raised"
        /\ (loop.answers # <<>> /\ ~Parseable(loop.answers[Len(loop.answers)])) =>
               (loop.pc = "returned" /\ loop.shot_plan = loop.before)

\* the critic got no well-formed answer: no client, an error of the service, no list
\* under qa_issues, or an issue that is no QAIssue
NoCriticAnswer(configured, critic) ==
    \/ ~configured
    \/ critic.raises
    \/ "qa_issues" \notin DOMAIN critic.result
    \/ Kind(critic.result.qa_issues) # "list"
    \/ \E i \in 1..Len(Val(critic.result.qa_issues)) :
           ~ValidQAIssue(Val(critic.result.qa_issues)[i])

\* C14: a validate_shot_plan call whose critic got no well-formed answer returns, and
\* what it returns are the issues of the four deterministic validators and no other.
C14_CriticFailureAbsorbed ==
    (qa.pc = "done" /\ qa.use_llm_critic /\ NoCriticAnswer(qa.configured, qa.critic))
    => /\ qa.out.exc = "none"
       /\ qa.out.data = DeterministicIssues(RepairPlan, qa.shot_plan)

(***************************************************************************)
(* Claims about the asset reference codec (SpecCodec).                     *)
(***************************************************************************)
AsciiDigits(s) == Len(s) > 0 /\ \A i \in 1..Len(s) : s[i] \in DigitChars

\* the stable id holds "_v" followed by digits up to its end or the next character
\* that is no digit
HasVersionSuffix(stable_id) ==
    \E p \in SepPositions(stable_id) : p + 2 <= Len(stable_id) /\ stable_id[p + 2] \in DigitChars

\* C19: parsing the reference built from a stable id without "_v" followed by digits
\* and a positive version gives that stable id and that version.
C19_RoundTrip ==
    (codec.pc = "round_trip" /\ ~HasVersionSuffix(codec.stable_id) /\ codec.version >= 1)
    => codec.out = <<codec.stable_id, codec.version, "none">>

C19_Witness ==
    /\ codec.pc = "round_trip"
    /\ SepPositions(codec.stable_id) # {} /\ ~HasVersionSuffix(codec.stable_id)
    /\ codec.version >= 10
    /\ codec.out = <<codec.stable_id, codec.version, "none">>

\* C20: parse_asset_id never fails and has two outcomes: when what follows the last
\* "_v" of the string is a non-empty run of digits, the text before that "_v" and the
\* number; else the string itself and 1.
C20_TwoOutcomesNeverFails ==
    codec.pc \in {"parsed", "round_trip"} =>
        LET s == codec.asset_id
            p == IF SepPositions(s) = {} THEN 0 ELSE Max(SepPositions(s))
            tail == SubSeq(s, p + 2, Len(s))
        IN /\ codec.out[3] = "none"
           /\ IF p > 0 /\ AsciiDigits(tail)
              THEN codec.out = <<SubSeq(s, 1, p - 1), StrToInt(tail), "none">>
              ELSE codec.out = <<s, 1, "none">>

(***************************************************************************)
(* Claims about the pipeline operations (Spec).                            *)
(***************************************************************************)
NewVersionOps == {"update_script", "patch_plan", "edit_image", "regenerate_image"}

\* a stored asset with its status flag blanked
Masked(asset) ==
    IF "dict" \in DOMAIN asset
    THEN DDict([Val(asset) EXCEPT !["status"] = DStr("draft")])
    ELSE [asset EXCEPT !.status = "draft"]

\* C3: a call of update_script, patch_plan, edit_image or regenerate_image, also one
\* that targets a version that is not the latest, stores its result under a version
\* not used before: the content, status aside, of every file that was there stays.
C3_VersionsNeverReplaced ==
    [][(call'.op \in NewVersionOps /\ ret' = "ok") =>
          \A p \in DOMAIN files : \A kind \in Kinds : \A key \in DOMAIN files[p][kind] :
              Masked(files'[p][kind][key]) = Masked(files[p][kind][key])]_vars

\* C7: when patch_plan raises, whichever patch of the list or step of the call failed,
\* no plan version has been stored, and the plan index and the active plan pointer
\* (the whole store) are as before the call.
C7_FailedPatchStoresNothing ==
    [][(call'.op = "patch_plan" /\ ret' # "ok") =>
          /\ files' = files
          /\ index' = index
          /\ project' = project]_vars

\* patch_plan raised on a stored plan after an earlier patch of the list had changed
\* the working copy
C7_Witness ==
    /\ call.op = "patch_plan"
    /\ ret = "ValueError"
    /\ call.partial
    /\ project[P1].active_plan_asset_id # None

\* C15: whenever the first service call of generate_shots gives a parseable shot
\* list, the call returns with exactly one shot plan stored and the project's active
\* shot plan pointer naming a stored shot plan, also when the list has error issues.
C15_ParseableShotListStored ==
    [][(call'.op = "generate_shots" /\ (ret' = "ok" \/ call'.partial)) =>
          /\ ret' = "ok"
          /\ ActiveAsset(files', index', P1, "shot_plans",
                         project'[P1].active_shot_plan_asset_id) # None
          /\ Cardinality(DOMAIN files'[P1]["shot_plans"])
                 = Cardinality(DOMAIN files[P1]["shot_plans"]) + 1]_vars

\* C16: when the service call of generate_plan, or the first one of generate_shots,
\* fails, the operation raises that failure and leaves the stored files, the index
\* and every project's active pointers as they were.
C16_UpstreamFailureChangesNothing ==
    [][(call'.op \in {"generate_plan", "generate_shots"} /\ ret' = "LLMError") =>
          /\ files' = files
          /\ index' = index
          /\ project' = project]_vars

\* generate_shots raised the service's failure on a project with an active plan
C16_Witness ==
    /\ call.op = "generate_shots"
    /\ ret = "LLMError"
    /\ project[P1].active_plan_asset_id # None
    /\ files[P1]["shot_plans"] = EmptyMap

PointerFields ==
    {"active_script_asset_id", "active_plan_asset_id", "active_shot_plan_asset_id"}

\* the pointers an operation is said to set
PointersOf(op) ==
    CASE op \in {"create_script", "update_script"} -> {"active_script_asset_id"}
      [] op \in {"generate_plan", "patch_plan"} -> {"active_plan_asset_id"}
      [] op = "generate_shots" -> {"active_shot_plan_asset_id"}
      [] OTHER -> {}

\* C17: a call changes no active pointer of any project but the one of its own asset
\* kind: the script operations the script pointer, generate_plan and patch_plan the
\* plan pointer, generate_shots the shot plan pointer, the image operations and
\* validate_shot_plan none.
C17_PointersChangeOnlyByOwnKind ==
    [][\A p \in DOMAIN project : \A field \in PointerFields \ PointersOf(call'.op) :
          project'[p][field] = project[p][field]]_vars

\* generate_shots has set the shot plan pointer of a project that has a script and a
\* plan pointer
C17_Witness ==
    /\ call.op = "generate_shots"
    /\ ret = "ok"
    /\ project[P1].active_shot_plan_asset_id # None
    /\ project[P1].active_plan_asset_id # None
    /\ project[P1].active_script_asset_id # None

(***************************************************************************)
(* Claims about generate_images (SpecImages).                              *)
(***************************************************************************)
\* the active shot plan's shots, none when the project has no shot plan
PlanShots ==
    LET shot_plan == ActiveAsset(files, index, P1, "shot_plans",
                                 project[P1].active_shot_plan_asset_id)
    IN IF shot_plan = None THEN <<>> ELSE shot_plan[1].shots

\* the shot_id fields of the shot plan's shots that satisfy Test
ShotIdsWhere(Test(_)) == {PlanShots[i].shot_id : i \in {j \in DOMAIN PlanShots : Test(PlanShots[j])}}

CountWhere(Test(_)) == Cardinality({j \in DOMAIN PlanShots : Test(PlanShots[j])})

\* C18: a generate_images call that returns adds image files only, leaving the files
\* that were there; with a shot scope it adds one image, a shot frame of the target
\* shot; with a scene scope it adds one shot frame for each shot of the scene, each of
\* a shot of that scene, as many for a shot id as the scene has shots of that id; with
\* an asset scope it adds images of the asset type of the scope only.
C18_ImagesOnlyInScope ==
    [][(call'.op = "generate_images" /\ ret' = "ok") =>
          LET scope == call'.scope
              old == DOMAIN files[P1]["images"]
              new == DOMAIN files'[P1]["images"] \ old
              image(key) == files'[P1]["images"][key]
          IN /\ \A p \in DOMAIN files : \A kind \in Kinds \ {"images"} :
                    files'[p][kind] = files[p][kind]
             /\ files'["proj_2"] = files["proj_2"]
             /\ \A key \in old :
                    key \in DOMAIN files'[P1]["images"] /\ image(key) = files[P1]["images"][key]
             /\ scope.scope_type = "shot" =>
                    /\ Cardinality(new) = 1
                    /\ \A key \in new : /\ image(key).asset_type = "shot_frame"
                                        /\ image(key).shot_id = scope.shot_id
             /\ scope.scope_type = "scene" =>
                    /\ Cardinality(new) = CountWhere(LAMBDA shot : Some(shot.scene_id) = scope.scene_id)
                    /\ \A key \in new :
                          /\ image(key).asset_type = "shot_frame"
                          /\ image(key).shot_id \in
                                {Some(shot_id) : shot_id \in
                                    ShotIdsWhere(LAMBDA shot : Some(shot.scene_id) = scope.scene_id)}
                    /\ \A shot_id \in ShotIdsWhere(LAMBDA shot : TRUE) :
                          Cardinality({key \in new : image(key).shot_id = Some(shot_id)})
                              = CountWhere(LAMBDA shot : /\ shot.shot_id = shot_id
                                                         /\ Some(shot.scene_id) = scope.scene_id)
             /\ scope.scope_type = "asset" =>
                    \A key \in new : image(key).asset_type = scope.asset_type]_vars

\* a scene scope call has returned with the two shot frames of the scene's shots, on a
\* shot plan that has a shot of another scene
C18_Witness ==
    /\ call.op = "generate_images"
    /\ ret = "ok"
    /\ call.scope.scope_type = "scene"
    /\ call.scope.scene_id = Some("SC001")
    /\ Len(PlanShots) = 3
    /\ \E i \in DOMAIN PlanShots : PlanShots[i].scene_id = "SC002"
    /\ {files[P1]["images"][key].shot_id : key \in DOMAIN files[P1]["images"]}
           = {Some("SH001"), Some("SH002")}

(***************************************************************************)
(* Claims on the deterministic validators, under SpecChecks                *)
(***************************************************************************)
CheckedShots == checks.shot_plan.shots

\* the indices in issues of the issues with this message
IssuesSaying(issues, message) == {k \in 1..Len(issues) : issues[k].message = message}

\* the unmet references of the list: <<shot, 0>> for the scene, <<shot, -1>> for the
\* location, <<shot, j>> for the j-th character of the shot
UnmetReferences ==
    {<<i, 0>> : i \in {i \in 1..Len(CheckedShots) :
                          CheckedShots[i].scene_id
                              \notin EntityIds(checks.plan, "scenes", "scene_id")}}
    \cup {<<i, -1>> : i \in {i \in 1..Len(CheckedShots) :
                                CheckedShots[i].location_id
                                    \notin EntityIds(checks.plan, "locations", "location_id")}}
    \cup {r \in (1..Len(CheckedShots)) \X (1..3) :
             /\ r[2] <= Len(CheckedShots[r[1]].characters)
             /\ CheckedShots[r[1]].characters[r[2]]
                    \notin EntityIds(checks.plan, "characters", "character_id")}

\* what the issue of an unmet reference names: the kind, the shot and the missing id
MissingMessage(r) ==
    LET shot == CheckedShots[r[1]]
    IN IF r[2] = 0 THEN <<"scene", shot.shot_id, shot.scene_id>>
       ELSE IF r[2] = -1 THEN <<"location", shot.shot_id, shot.location_id>>
       ELSE <<"character", shot.shot_id, shot.characters[r[2]]>>

\* C21: the missing-entity check returns one error per unmet scene, location or
\* character reference of a shot, each naming the shot and the missing id, and nothing
\* else: as many issues as unmet references, as many issues with a given message as
\* references with that message, and so no issue exactly when every reference resolves.
C21_OneErrorPerUnmetReference ==
    (checks.pc = "done") =>
        /\ Len(checks.missing) = Cardinality(UnmetReferences)
        /\ \A k \in 1..Len(checks.missing) :
               /\ checks.missing[k].severity = "error"
               /\ checks.missing[k].issue_type = "missing_entity"
               /\ \E r \in UnmetReferences :
                      /\ checks.missing[k].message = MissingMessage(r)
                      /\ checks.missing[k].shot_id = Some(CheckedShots[r[1]].shot_id)
        /\ \A r \in UnmetReferences :
               Cardinality(IssuesSaying(checks.missing, MissingMessage(r)))
                   = Cardinality({q \in UnmetReferences : MissingMessage(q) = MissingMessage(r)})
        /\ (checks.missing = <<>>) <=> (UnmetReferences = {})

\* a shot with an unknown scene, an unknown location and a missing character named
\* twice next to a known one: four errors; beside it a shot with nothing missing
C21_Witness ==
    /\ checks.pc = "done"
    /\ checks.plan = RepairPlan
    /\ Len(CheckedShots) = 2
    /\ CheckedShots[1].scene_id = "SC009"
    /\ CheckedShots[1].location_id = "LOC_09"
    /\ CheckedShots[1].characters = <<"CHAR_99", "CHAR_01", "CHAR_99">>
    /\ CheckedShots[2].scene_id = "SC001"
    /\ CheckedShots[2].location_id = "LOC_01"
    /\ CheckedShots[2].characters = <<"CHAR_01">>
    /\ Len(checks.missing) = 4
    /\ \A k \in 1..4 : checks.missing[k].shot_id = Some("SH001")

\* the scenes of the shots of the list
CheckedScenes == {CheckedShots[i].scene_id : i \in 1..Len(CheckedShots)}

\* the positions in the list of the shots of a scene
InScene(scene_id) == {i \in 1..Len(CheckedShots) : CheckedShots[i].scene_id = scene_id}

\* the indices of the n shots of a scene are, as a multiset, 0, 1, ..., n-1: each of
\* these values is the index of exactly one shot of the scene
IndicesInOrder(scene_id) ==
    \A v \in 0..(Cardinality(InScene(scene_id)) - 1) :
        Cardinality({i \in InScene(scene_id) : CheckedShots[i].shot_index_in_scene = v}) = 1

OrderIssues == {k \in 1..Len(checks.order) : checks.order[k].issue_type = "order"}

\* C22: the order check returns exactly one issue, a warning, for every scene whose
\* shot indices are not 0..n-1 as a multiset, and no order issue for any other scene,
\* whatever the order of the shots in the list.
C22_OneWarningPerDisorderedScene ==
    (checks.pc = "done") =>
        /\ \A k \in OrderIssues :
               /\ checks.order[k].severity = "warning"
               /\ \E scene_id \in CheckedScenes : checks.order[k].message = <<scene_id>>
        /\ \A scene_id \in CheckedScenes :
               Cardinality({k \in OrderIssues : checks.order[k].message = <<scene_id>>})
                   = IF IndicesInOrder(scene_id) THEN 0 ELSE 1

\* a scene whose two shots are listed with index 1 before index 0, and between them
\* the only shot of another scene with index 2: one warning, for the second scene
C22_Witness ==
    /\ checks.pc = "done"
    /\ Len(CheckedShots) = 3
    /\ CheckedShots[1].scene_id = "SC001" /\ CheckedShots[1].shot_index_in_scene = 1
    /\ CheckedShots[2].scene_id = "SC002" /\ CheckedShots[2].shot_index_in_scene = 2
    /\ CheckedShots[3].scene_id = "SC001" /\ CheckedShots[3].shot_index_in_scene = 0
    /\ Cardinality(OrderIssues) = 1
    /\ \A k \in OrderIssues : checks.order[k].message = <<"SC002">>

\* the shots of the list with this id of which Test holds
ShotsWhere(shot_id, Test(_)) ==
    {i \in 1..Len(CheckedShots) : CheckedShots[i].shot_id = shot_id /\ Test(CheckedShots[i])}

\* continuity_lock is empty or holds nothing but spaces, tabs and line ends
LockIsBlank(shot) ==
    ~ \E i \in 1..Len(shot.continuity_lock) : shot.continuity_lock[i] \notin {" ", "\t", "\n"}

PromptIsUnset(shot) == shot.negative_prompt = <<>>

\* C23: the required-fields check returns, for every shot, an error exactly when its
\* continuity_lock is empty or only whitespace and a warning exactly when its
\* negative_prompt is None, and nothing else; a negative_prompt of "" gives no issue.
C23_ErrorIffBlankLockWarningIffUnsetPrompt ==
    (checks.pc = "done") =>
        /\ \A k \in 1..Len(checks.fields) :
               /\ checks.fields[k].issue_type = "missing_field"
               /\ \E i \in 1..Len(CheckedShots) :
                      /\ checks.fields[k].shot_id = <<CheckedShots[i].shot_id>>
                      /\ \/ /\ checks.fields[k].severity = "error"
                            /\ checks.fields[k].message
                                   = <<"continuity_lock", CheckedShots[i].shot_id>>
                         \/ /\ checks.fields[k].severity = "warning"
                            /\ checks.fields[k].message
                                   = <<"negative_prompt", CheckedShots[i].shot_id>>
        /\ \A i \in 1..Len(CheckedShots) :
               /\ Cardinality(IssuesSaying(checks.fields,
                                           <<"continuity_lock", CheckedShots[i].shot_id>>))
                      = Cardinality(ShotsWhere(CheckedShots[i].shot_id, LockIsBlank))
               /\ Cardinality(IssuesSaying(checks.fields,
                                           <<"negative_prompt", CheckedShots[i].shot_id>>))
                      = Cardinality(ShotsWhere(CheckedShots[i].shot_id, PromptIsUnset))

\* a shot with a whitespace lock and no negative_prompt, one with a lock that starts
\* with a space and a negative_prompt of "", one with an empty lock and a prompt: an
\* error and a warning for the first, nothing for the second, an error for the third
C23_Witness ==
    /\ checks.pc = "done"
    /\ Len(CheckedShots) = 3
    /\ CheckedShots[1].continuity_lock = <<"\t", "\n">> /\ CheckedShots[1].negative_prompt = <<>>
    /\ CheckedShots[2].continuity_lock = <<" ", "k">> /\ CheckedShots[2].negative_prompt = <<"">>
    /\ CheckedShots[3].continuity_lock = <<>> /\ CheckedShots[3].negative_prompt = <<"x">>
    /\ Len(checks.fields) = 3
    /\ checks.fields[1].severity = "error" /\ checks.fields[1].shot_id = <<"SH001">>
    /\ checks.fields[2].severity = "warning" /\ checks.fields[2].shot_id = <<"SH001">>
    /\ checks.fields[3].severity = "error" /\ checks.fields[3].shot_id = <<"SH003">>

\* shot i comes before shot j in the order of their scene: by index, and by place in
\* the list among shots of equal index
ComesBefore(i, j) ==
    \/ CheckedShots[i].shot_index_in_scene < CheckedShots[j].shot_index_in_scene
    \/ /\ CheckedShots[i].shot_index_in_scene = CheckedShots[j].shot_index_in_scene
       /\ i < j

\* the pairs (A, B) of neighbours: two shots of one scene with no shot of the scene
\* between them
Neighbours ==
    {pair \in (1..Len(CheckedShots)) \X (1..Len(CheckedShots)) :
        /\ CheckedShots[pair[1]].scene_id = CheckedShots[pair[2]].scene_id
        /\ ComesBefore(pair[1], pair[2])
        /\ ~ \E k \in InScene(CheckedShots[pair[1]].scene_id) :
                 ComesBefore(pair[1], k) /\ ComesBefore(k, pair[2])}

\* both values are given, neither is the empty string, and they differ
BothGivenAndDiffer(value_out, value_in) ==
    /\ value_out \notin {<<>>, <<"">>}
    /\ value_in \notin {<<>>, <<"">>}
    /\ value_out # value_in

PropsOf(state) == {state.props_held[i] : i \in 1..Len(state.props_held)}

\* the conflicts of the list: <<A, B, what>> for neighbours A, B
StateConflicts ==
    {<<pair[1], pair[2], "time_of_day">> :
        pair \in {pair \in Neighbours :
                     BothGivenAndDiffer(CheckedShots[pair[1]].state_out.time_of_day,
                                        CheckedShots[pair[2]].state_in.time_of_day)}}
    \cup {<<pair[1], pair[2], "weather">> :
            pair \in {pair \in Neighbours :
                         BothGivenAndDiffer(CheckedShots[pair[1]].state_out.weather,
                                            CheckedShots[pair[2]].state_in.weather)}}
    \cup {<<pair[1], pair[2], "props_held">> :
            pair \in {pair \in Neighbours :
                         PropsOf(CheckedShots[pair[1]].state_out)
                             # PropsOf(CheckedShots[pair[2]].state_in)}}

\* what the issue of a conflict says: the field, both shots and, for a time of day or
\* a weather, both values
ConflictMessage(c) ==
    LET A == CheckedShots[c[1]]
        B == CheckedShots[c[2]]
    IN IF c[3] = "time_of_day"
       THEN <<"time_of_day", A.shot_id>> \o A.state_out.time_of_day
            \o <<B.shot_id>> \o B.state_in.time_of_day
       ELSE IF c[3] = "weather"
       THEN <<"weather", A.shot_id>> \o A.state_out.weather
            \o <<B.shot_id>> \o B.state_in.weather
       ELSE <<"props_held", A.shot_id, B.shot_id>>

\* C24: the state-continuity check returns exactly one issue per conflict between
\* neighbours of a scene in index order: a warning when the time of day A leaves and
\* the one B enters are both non-empty and differ, the same for the weather, an info
\* issue when the sets of props held differ; nothing for shots of different scenes or
\* shots that are not neighbours, and never an error.
C24_StateConflictsOfNeighboursOnly ==
    (checks.pc = "done") =>
        /\ Len(checks.state) = Cardinality(StateConflicts)
        /\ \A k \in 1..Len(checks.state) :
               /\ checks.state[k].severity # "error"
               /\ checks.state[k].issue_type = "state_conflict"
               /\ \E c \in StateConflicts :
                      /\ checks.state[k].message = ConflictMessage(c)
                      /\ checks.state[k].shot_id = <<CheckedShots[c[2]].shot_id>>
                      /\ checks.state[k].severity
                             = IF c[3] = "props_held" THEN "info" ELSE "warning"
        /\ \A c \in StateConflicts :
               Cardinality(IssuesSaying(checks.state, ConflictMessage(c)))
                   = Cardinality({d \in StateConflicts : ConflictMessage(d) = ConflictMessage(c)})

\* three shots, listed as index 1, then another scene, then index 0: the shot of
\* index 0 leaves by day, the one of index 1 enters by night and the shot of the other
\* scene enters by night too: one warning, between the third and the first shot
C24_Witness ==
    /\ checks.pc = "done"
    /\ Len(CheckedShots) = 3
    /\ CheckedShots[1].scene_id = "SC001" /\ CheckedShots[1].shot_index_in_scene = 1
    /\ CheckedShots[1].state_in.time_of_day = <<"night">>
    /\ CheckedShots[2].scene_id = "SC002"
    /\ CheckedShots[2].state_in.time_of_day = <<"night">>
    /\ CheckedShots[3].scene_id = "SC001" /\ CheckedShots[3].shot_index_in_scene = 0
    /\ CheckedShots[3].state_out.time_of_day = <<"day">>
    /\ Len(checks.state) = 1
    /\ checks.state[1].severity = "warning"
    /\ checks.state[1].message = <<"time_of_day", "SH003", "day", "SH001", "night">>

\* neighbours whose props differ as sets give an info issue, and those that hold the
\* same prop once and twice give none
C24_WitnessProps ==
    /\ checks.pc = "done"
    /\ Len(CheckedShots) = 3
    /\ \A i \in 1..3 : CheckedShots[i].scene_id = "SC001"
    /\ \A i \in 1..3 : CheckedShots[i].shot_index_in_scene = 0
    /\ CheckedShots[1].state_out.props_held = <<"cup">>
    /\ CheckedShots[2].state_in.props_held = <<"cup", "cup">>
    /\ CheckedShots[3].state_in.props_held = <<"cup">>
    /\ Len(checks.state) = 1
    /\ checks.state[1].severity = "info"
    /\ checks.state[1].message = <<"props_held", "SH002", "SH003">>

(***************************************************************************)
(* Claims on the course of the repair loop (SpecRepair)                    *)
(***************************************************************************)
\* the loop has validated the shot list it holds: it validates once at the start and
\* the list is replaced once per iteration counted
CurrentValidated(st) == st.validations > st.iteration

\* C25: every repaired document is validated before the loop ends: a repair step to
\* which the service has a parseable shot list to give puts that list in place and
\* leads back to validation, and a loop that has returned has validated the shot list
\* it returns, at the ceiling of iterations too.
C25_RepairedDocumentRevalidated ==
    [][/\ \A service \in RepairAnswers :
              (/\ loop.pc = "repair"
               /\ Parseable(service)
               /\ loop' = RepairStep(loop, TRUE, service,
                                     ShotPlanPrefix \o IntToStr(loop.repairs + 1)))
              => /\ loop'.pc = "validate"
                 /\ loop'.iteration = loop.iteration + 1
                 /\ loop'.shot_plan.shots
                        = [i \in 1..Len(service.result.shots) |-> Shot(service.result.shots[i])]
       /\ loop'.pc = "returned" => CurrentValidated(loop')]_vars

\* C26: the loop ends in Done: at every moment it either has a step to take or has
\* returned a shot list, it has made at most MAX_REPAIR_ITERATIONS repair calls, and
\* it has run the critic at most once, in iteration 0.
C26_LoopReachesDoneWithinBounds ==
    /\ loop.pc \in {"validate", "repair", "returned"}
    /\ loop.repairs <= MAX_REPAIR_ITERATIONS
    /\ Len(loop.critiques) <= 1
    /\ \A i \in 1..Len(loop.critiques) : loop.critiques[i] = 0

\* what holds of the loop as it is: the call ends, by a return or by an exception
LoopEnds == <>Finished

\* and it ends within the bounds on repair calls and on runs of the critic
LoopWithinBounds ==
    /\ loop.repairs <= MAX_REPAIR_ITERATIONS
    /\ loop.requests <= MAX_REPAIR_ITERATIONS
    /\ Len(loop.critiques) <= 1
    /\ \A i \in 1..Len(loop.critiques) : loop.critiques[i] = 0
    /\ loop.pc = "returned" => CurrentValidated(loop)

(***************************************************************************)
(* Claims on the store reached by pipeline calls (Spec)                    *)
(***************************************************************************)
\* the directory an active pointer refers into
PointerKind(field) ==
    CASE field = "active_script_asset_id" -> "scripts"
      [] field = "active_plan_asset_id" -> "plans"
      [] field = "active_shot_plan_asset_id" -> "shot_plans"

\* the reference decodes to a stable id and a version whose file is in the directory
\* of the kind in project p
StoredIn(p, kind, ref) ==
    LET decoded == parse_asset_id(ref)
    IN /\ decoded[3] = "none"
       /\ build_asset_id(decoded[1], decoded[2]) \in DOMAIN files[p][kind]

\* C27: no active pointer dangles: every active pointer of a project that is set
\* decodes to a stable id and version whose asset is stored in that project.
C27_NoDanglingPointer ==
    \A p \in DOMAIN project : \A field \in PointerFields :
        project[p][field] # None => StoredIn(p, PointerKind(field), project[p][field][1])

\* the stable id and the version of a stored file, read from its name
FileId(key) == parse_asset_id(key)[1]
FileVersion(key) == parse_asset_id(key)[2]

\* the versions of a stable id stored in a directory
StoredVersions(p, kind, stable_id) ==
    {FileVersion(key) : key \in {k \in DOMAIN files[p][kind] : FileId(k) = stable_id}}

\* the parent backlink of a stored asset: None or Some(reference)
ParentLink(kind, asset) ==
    CASE kind = "scripts" -> asset.parent_script_asset_id
      [] kind = "plans" -> IF Kind(Val(asset)["parent_plan_asset_id"]) = "none" THEN <<>>
                           ELSE <<Val(Val(asset)["parent_plan_asset_id"])>>
      [] kind = "shot_plans" -> asset.parent_shot_plan_asset_id
      [] kind = "images" -> asset.parent_image_asset_id

\* the versions of a stable id stored in the directories of a kind
AllStoredVersions(kind, stable_id) ==
    UNION {StoredVersions(p, kind, stable_id) : p \in DOMAIN files}

C28_WitnessImage ==
    /\ call.op = "edit_image"
    /\ \E key \in DOMAIN files[P1]["images"] :
           /\ FileVersion(key) = 2
           /\ files[P1]["images"][key].parent_image_asset_id # <<>>

\* the second version of a plan stored in another project than the first
C28_WitnessAcross ==
    \E key \in DOMAIN files["proj_2"]["plans"] :
        /\ FileVersion(key) = 2
        /\ StoredVersions("proj_2", "plans", FileId(key)) = {2}
        /\ StoredVersions(P1, "plans", FileId(key)) = {1}

(***************************************************************************)
(* Claims on writers of different stable ids (SpecTwoIds)                  *)
(***************************************************************************)
\* C29: two concurrent creates of assets with different stable ids in one directory
\* do not interfere: once both have returned, get_*(project, id, None) gives, for each
\* of the two ids, the asset stored for it.
C29_BothIdsFound ==
    (\A w \in Writers : writers[w].pc = "done") =>
        \A w \in Writers :
            get_asset(files, index, P1, writers[w].kind, writers[w].asset.stable_id, None)
                = <<writers[w].asset>>

(***************************************************************************)
(* Claims on concurrent operations of different kinds (SpecOps)            *)
(***************************************************************************)
\* C30: operations that set different active pointers of one project are independent
\* when they run concurrently: once both have completed, the project record holds the
\* pointer each of them set; no pointer update is lost or reverted.
C30_BothPointersKept ==
    (\A o \in Operations : ops[o].pc = "done") =>
        \A o \in Operations : project[P1][OpField(ops[o].op)] = ops[o].pointer

=============================================================================
